---- MODULE Spec2Model ----
(***************************************************************************)
(* The recommendation engine of the cafe system (recommendation_engine.py) *)
(* over the PostgreSQL tables of database_manager.py.                      *)
(*                                                                         *)
(* Numbers.  Scores are fixed-point integers in hundredths (ScoreScale):   *)
(* an order count of 5 is the score 500, a cosine similarity of 0.83 is    *)
(* 83.  Weights are tenths (0.4 is 4), so a combined score is in           *)
(* thousandths: 10*0.4 + 0.8*0.3 = 4.24 is 1000*4 + 80*3 = 4240.           *)
(* Time is in whole days.                                                  *)
(***************************************************************************)
EXTENDS Integers, Sequences, FiniteSets, TLC

\* ---------------------------------------------------------------- bounds
MaxCustomers == 2
MaxMenu == 3
MaxOrders == 3
MaxQty == 3
MaxLimit == 2
MaxNow == 31
MaxListLen == 2
MaxConcurrentWrites == 1
\* capture objects created, persons in front of the camera, faces in a frame,
\* visits the stream counts for a customer
MaxCaptures == 2
MaxPersons == 2
MaxFaces == 2
MaxVisits == 1
\* orders stored through the order form
MaxPosts == 2

\* ------------------------------------------------------ program constants
MIN_ORDERS_FOR_RECOMMENDATION == 3
RECOMMENDATION_WEIGHT_FREQUENCY == 4
RECOMMENDATION_WEIGHT_RECENCY == 3
RECOMMENDATION_WEIGHT_SIMILARITY == 3
\* timedelta(days=30)
RecencyWindowDays == 30
\* scores are kept in hundredths
ScoreScale == 100
\* capture_and_save_face(..., num_photos: int = 5)
num_photos == 5

VARIABLES
    customers,    \* number of rows of table customers (ids 1..customers)
    menu_items,   \* table menu_items: sequence of rows, id = index (SERIAL)
    orders,       \* tables orders and order_items: sequence of orders, id = index
    now,          \* the clock, in days
    hashseed,     \* the process's string hash seed (fixes set iteration order)
    config,       \* the module config: the weights the combiner reads
    last,         \* the last call of the engine and its outcome
    prev,         \* the outcome of the same call made just before it, if any
    customer_rows,              \* table customers: email and visit_count of each row
    camera,                     \* app.py global: 0 for None, else a capture object
    video_active,               \* app.py global
    recognition_active,         \* app.py global
    latest_recognition_result,  \* app.py global
    captures,                   \* the cv2.VideoCapture objects created so far
    stream,                     \* the generate_frames generator being served
    control,                    \* the last request to a route other than the stream
    known_face_encodings,       \* FaceRecognitionManager attribute
    known_face_names,           \* FaceRecognitionManager attribute
    known_customer_ids,         \* FaceRecognitionManager attribute
    customer_dir,               \* the folders of config.CUSTOMER_DIR
    capture                     \* the running capture_and_save_face call

\* the globals of app.py and the threads that use them
flask == <<camera, video_active, recognition_active, latest_recognition_result,
           captures, stream, control>>

\* the face manager, its files and its running call
faces == <<known_face_encodings, known_face_names, known_customer_ids,
           customer_dir, capture>>

\* the tables the recommendation engine reads, and its calls
shop == <<customers, menu_items, orders, now, hashseed, config, last, prev>>

vars == <<customers, menu_items, orders, now, hashseed, config, last, prev,
          customer_rows, flask, faces>>

\* ------------------------------------------------------------- sequences
Range(s) == {s[i] : i \in DOMAIN s}

Prefix(s, n) == IF n <= 0 THEN <<>> ELSE SubSeq(s, 1, IF n < Len(s) THEN n ELSE Len(s))

RemoveAt(s, i) == SubSeq(s, 1, i - 1) \o SubSeq(s, i + 1, Len(s))

RECURSIVE SumSeq(_)
SumSeq(s) == IF s = <<>> THEN 0 ELSE Head(s) + SumSeq(Tail(s))

RECURSIVE Perms(_)
Perms(S) ==
    IF S = {} THEN {<<>>}
    ELSE UNION {{<<x>> \o p : p \in Perms(S \ {x})} : x \in S}

\* ------------------------------------------------------------ menu kinds
\* The feature triples (category, subcategory, ingredient tokens) of three of
\* the sample items: Espresso/Americano, Cappuccino/Latte, Caesar Salad.
Kinds == {"espresso", "cappuccino", "salad"}

Category(k) == IF k \in {"salad", "croissant"} THEN "food" ELSE "drink"

Subcategory(k) ==
    CASE k = "salad" -> "salad"
      [] k = "croissant" -> "pastry"
      [] OTHER -> "coffee"

Ingredients(k) ==
    CASE k = "espresso" -> <<"coffee", "beans">>
      [] k = "cappuccino" -> <<"coffee", "beans", "milk">>
      [] k = "croissant" -> <<"flour", "butter", "eggs">>
      [] OTHER -> <<"lettuce", "parmesan", "croutons">>

\* prices of the sample menu, in cents
Price(k) ==
    CASE k = "espresso" -> 250
      [] k = "cappuccino" -> 350
      [] k = "croissant" -> 300
      [] OTHER -> 800

\* ---------------------------------------------------------------- tables
Return(v) == [kind |-> "return", value |-> v, exc |-> "none"]

Raise(e) == [kind |-> "raise", value |-> <<>>, exc |-> e]

Call(op, c, limit, args, out) ==
    [op |-> op, customer_id |-> c, limit |-> limit, args |-> args, out |-> out]

NoCall == Call("none", 0, 0, <<>>, Return(<<>>))

\* config.py as it is in the repository.
ConfigFile ==
    [RECOMMENDATION_WEIGHT_FREQUENCY |-> RECOMMENDATION_WEIGHT_FREQUENCY,
     RECOMMENDATION_WEIGHT_RECENCY |-> RECOMMENDATION_WEIGHT_RECENCY,
     RECOMMENDATION_WEIGHT_SIMILARITY |-> RECOMMENDATION_WEIGHT_SIMILARITY]

\* Python's None, where a global or a result holds None or a dict.
None == [none |-> TRUE]

\* No request was made yet; no generator is being served.
NoRequest == [route |-> "none", pc |-> "returned"]

NoStream == [pc |-> "none", frame |-> <<>>, read_on |-> "none", recognized |-> <<>>]

NoCapture ==
    [pc |-> "idle", customer_id |-> 0, name |-> "", cap |-> 0,
     captured_encodings |-> <<>>, result |-> "none", todo |-> {}, folder |-> <<>>, k |-> 0]

\* Table customers is empty.
InitCustomers == customer_rows = <<>>

\* app.py, lines 36-45: the globals after import.
InitFlask ==
    /\ camera = 0
    /\ video_active = FALSE
    /\ recognition_active = FALSE
    /\ latest_recognition_result = None
    /\ captures = <<>>
    /\ stream = NoStream
    /\ control = NoRequest

\* FaceRecognitionManager.__init__ with an empty customer directory.
InitFaces ==
    /\ known_face_encodings = <<>>
    /\ known_face_names = <<>>
    /\ known_customer_ids = <<>>
    /\ customer_dir = {}
    /\ capture = NoCapture

Init ==
    /\ customers = 0
    /\ menu_items = <<>>
    /\ orders = <<>>
    /\ now = 0
    /\ hashseed = 0
    /\ config = ConfigFile
    /\ last = NoCall
    /\ prev = NoCall
    /\ InitCustomers /\ InitFlask /\ InitFaces

\* DatabaseManager.add_customer with the default email=None: INSERT INTO
\* customers ... visit_count 1 ... RETURNING id; a NULL email meets no other.
add_customer ==
    /\ customers < MaxCustomers
    /\ customers' = customers + 1
    /\ customer_rows' = Append(customer_rows, [email |-> "NULL", visit_count |-> 1])
    /\ last' = NoCall
    /\ prev' = NoCall
    /\ UNCHANGED <<menu_items, orders, now, hashseed, config, flask, faces>>

\* DatabaseManager.add_menu_item: INSERT INTO menu_items; is_available
\* DEFAULT TRUE.
add_menu_item(k) ==
    /\ Len(menu_items) < MaxMenu
    /\ menu_items' = Append(menu_items, [kind |-> k, is_available |-> TRUE])
    /\ last' = NoCall
    /\ prev' = NoCall
    /\ UNCHANGED <<customers, orders, now, hashseed, config, customer_rows, flask, faces>>

\* migrate_menu_items: add_menu_item, then UPDATE menu_items SET
\* is_available = FALSE for an item that was unavailable in the old database.
migrate_unavailable_item(k) ==
    /\ Len(menu_items) < MaxMenu
    /\ menu_items' = Append(menu_items, [kind |-> k, is_available |-> FALSE])
    /\ last' = NoCall
    /\ prev' = NoCall
    /\ UNCHANGED <<customers, orders, now, hashseed, config, customer_rows, flask, faces>>

\* DatabaseManager.get_menu_items(): SELECT * FROM menu_items WHERE
\* is_available = TRUE, as a list of rows in table order.
RECURSIVE AvailableFrom(_, _)
AvailableFrom(menu, i) ==
    IF i > Len(menu) THEN <<>>
    ELSE (IF menu[i].is_available THEN <<[id |-> i, kind |-> menu[i].kind]>> ELSE <<>>)
         \o AvailableFrom(menu, i + 1)

get_menu_items(menu) == AvailableFrom(menu, 1)

\* next((item for item in menu_items if item['id'] == menu_item_id), None)
InCatalog(catalog, id) == \E i \in DOMAIN catalog : catalog[i].id = id

\* DatabaseManager.add_order: one row in orders (order_date DEFAULT
\* CURRENT_TIMESTAMP) and one row in order_items per item.  The foreign keys
\* need an existing customer and existing menu items.
\* (a total that counts every line once, whatever its quantity)
total_of_prices(items) == SumSeq([i \in DOMAIN items |-> items[i].unit_price])

\* total_amount = sum(float(item['unit_price']) * item['quantity'] ...)
RECURSIVE total_amount(_)
total_amount(items) ==
    IF items = <<>> THEN 0
    ELSE Head(items).unit_price * Head(items).quantity + total_amount(Tail(items))

\* An order line as the callers of add_order build it: the item, the
\* quantity and the item's price in the menu.
Line(id, q) ==
    [menu_item_id |-> id, quantity |-> q, unit_price |-> Price(menu_items[id].kind)]

add_order(c, items) ==
    /\ Len(orders) < MaxOrders
    /\ c \in 1..customers
    /\ \A i \in DOMAIN items : items[i].menu_item_id \in DOMAIN menu_items
    /\ orders' = Append(orders, [customer_id |-> c, order_date |-> now, items |-> items,
                                 total_amount |-> total_amount(items)])
    /\ last' = NoCall
    /\ prev' = NoCall
    /\ UNCHANGED <<customers, menu_items, now, hashseed, config, flask, faces>>

\* The create_order route: one line per available menu item whose submitted
\* quantity is > 0, in menu order; no order without a line.
RECURSIVE OrderLines(_, _, _)
OrderLines(catalog, qty, i) ==
    IF i > Len(catalog) THEN <<>>
    ELSE (IF qty[catalog[i].id] > 0
          THEN <<[menu_item_id |-> catalog[i].id, quantity |-> qty[catalog[i].id],
                  unit_price |-> Price(catalog[i].kind)]>>
          ELSE <<>>) \o OrderLines(catalog, qty, i + 1)

\* DatabaseManager.update_customer_visit: visit_count = visit_count + 1 for
\* the row with this id, if there is one.
update_customer_visit(c) ==
    customer_rows' = [i \in DOMAIN customer_rows |->
                         IF i = c THEN [customer_rows[i] EXCEPT !.visit_count = @ + 1]
                         ELSE customer_rows[i]]

create_order(c, qty) ==
    LET items == OrderLines(get_menu_items(menu_items), qty, 1)
    IN  /\ items # <<>>
        /\ add_order(c, items)
        /\ update_customer_visit(c)

\* migrate_orders: add_order for an order of the old database, whose items
\* can be unavailable ones, then UPDATE orders SET order_date to the old date.
migrate_order(c, items, d) ==
    /\ Len(orders) < MaxOrders
    /\ c \in 1..customers
    /\ d \in 0..now
    /\ \A i \in DOMAIN items : items[i].menu_item_id \in DOMAIN menu_items
    /\ orders' = Append(orders, [customer_id |-> c, order_date |-> d, items |-> items,
                                 total_amount |-> total_amount(items)])
    /\ last' = NoCall
    /\ prev' = NoCall
    /\ UNCHANGED <<customers, menu_items, now, hashseed, config, customer_rows, flask, faces>>

\* Time passes.
Tick(d) ==
    /\ now + d <= MaxNow
    /\ now' = now + d
    /\ last' = NoCall
    /\ prev' = NoCall
    /\ UNCHANGED <<customers, menu_items, orders, hashseed, config, customer_rows, flask, faces>>

\* --------------------------------------------------------- order history
\* DatabaseManager.get_customer_order_history: the customer's orders that
\* have at least one line (JOIN order_items), most recent first (ORDER BY
\* o.order_date DESC; orders of one day keep their timestamps' order, the
\* later insert first).  order_date comes back from the TIMESTAMP column as
\* a datetime object.
RECURSIVE HistoryFrom(_, _, _)
HistoryFrom(ords, c, i) ==
    IF i < 1 THEN <<>>
    ELSE (IF ords[i].customer_id = c /\ ords[i].items # <<>>
          THEN <<[id |-> i,
                  order_date |-> [pytype |-> "datetime", day |-> ords[i].order_date],
                  items |-> ords[i].items]>>
          ELSE <<>>) \o HistoryFrom(ords, c, i - 1)

get_customer_order_history(ords, c) == HistoryFrom(ords, c, Len(ords))

\* All order lines of a history, in iteration order.
RECURSIVE Lines(_)
Lines(history) ==
    IF history = <<>> THEN <<>> ELSE Head(history).items \o Lines(Tail(history))

\* ------------------------------------------------------ collections.Counter
\* A Counter as the sequence of its [item, score] entries in insertion order.
\* (a counter of order lines: += 1 for += quantity)
RECURSIVE CounterAddLine(_, _, _)
CounterAddLine(counter, id, q) ==
    IF counter = <<>> THEN <<[item |-> id, score |-> 1]>>
    ELSE IF Head(counter).item = id
         THEN <<[item |-> id, score |-> Head(counter).score + 1]>> \o Tail(counter)
         ELSE <<Head(counter)>> \o CounterAddLine(Tail(counter), id, q)

RECURSIVE CounterAdd(_, _, _)
CounterAdd(counter, id, q) ==
    IF counter = <<>> THEN <<[item |-> id, score |-> q]>>
    ELSE IF Head(counter).item = id
         THEN <<[item |-> id, score |-> Head(counter).score + q]>> \o Tail(counter)
         ELSE <<Head(counter)>> \o CounterAdd(Tail(counter), id, q)

RECURSIVE CountLines(_, _)
CountLines(lines, counter) ==
    IF lines = <<>> THEN counter
    ELSE CountLines(Tail(lines),
                    CounterAdd(counter, Head(lines).menu_item_id, Head(lines).quantity))

\* sorted(..., key=score, reverse=True): stable, highest score first.
MaxScore(s) == CHOOSE m \in {s[i].score : i \in DOMAIN s} :
                   \A i \in DOMAIN s : s[i].score <= m

FirstMax(s) == CHOOSE i \in DOMAIN s :
                   /\ s[i].score = MaxScore(s)
                   /\ \A j \in 1..(i - 1) : s[j].score # MaxScore(s)

RECURSIVE SortedByScoreDesc(_)
SortedByScoreDesc(s) ==
    IF s = <<>> THEN <<>>
    ELSE <<s[FirstMax(s)]>> \o SortedByScoreDesc(RemoveAt(s, FirstMax(s)))

\* Counter.most_common(n)
most_common(counter, n) == Prefix(SortedByScoreDesc(counter), n)

\* ------------------------------------------------------- frequency scorer
ReasonText(strategy) ==
    CASE strategy = "frequency" -> "You've ordered this {count} times"
      [] strategy = "recency" -> "Recently ordered {count} times"
      [] strategy = "similarity" -> "Similar to items you've enjoyed"
      [] OTHER -> "Popular choice among customers"

\* The entries of a Counter that are in the catalog, as recommendations:
\* score = count, reason = the strategy's text with the count filled in.
RECURSIVE CountRecs(_, _, _)
CountRecs(entries, catalog, strategy) ==
    IF entries = <<>> THEN <<>>
    ELSE (IF InCatalog(catalog, Head(entries).item)
          THEN <<[item |-> Head(entries).item,
                  score |-> Head(entries).score * ScoreScale,
                  reason |-> [text |-> ReasonText(strategy), n |-> Head(entries).score],
                  recommendation_type |-> strategy]>>
          ELSE <<>>) \o CountRecs(Tail(entries), catalog, strategy)

_get_frequency_based_recommendations(ords, menu, c, limit) ==
    LET order_history == get_customer_order_history(ords, c)
        item_counts == CountLines(Lines(order_history), <<>>)
        most_frequent == most_common(item_counts, limit)
    IN  Return(CountRecs(most_frequent, get_menu_items(menu), "frequency"))

\* ------------------------------------------------------ similarity scorer
\* The feature text of a menu item: category, subcategory (if set) and the
\* ingredients, joined with spaces.
Features(k) ==
    <<Category(k)>>
    \o (IF Subcategory(k) # "" THEN <<Subcategory(k)>> ELSE <<>>)
    \o Ingredients(k)

\* TfidfVectorizer(stop_words='english'): the tokens of a feature text that
\* are no English stop words.
ENGLISH_STOP_WORDS == {"and", "of", "the", "with"}

Tokens(k) == SelectSeq(Features(k), LAMBDA t : t \notin ENGLISH_STOP_WORDS)

Vocabulary(catalog) == UNION {Range(Tokens(catalog[i].kind)) : i \in DOMAIN catalog}

\* term frequency of t in a token list
Tf(doc, t) == Cardinality({p \in DOMAIN doc : doc[p] = t})

\* document frequency of t in the catalog
Df(catalog, t) == Cardinality({i \in DOMAIN catalog : Tf(Tokens(catalog[i].kind), t) > 0})

\* smooth idf, ln((1 + n) / (1 + df)) + 1, in tenths, for n documents (row)
\* and document frequency df (column).
IdfTable ==
    << <<10>>,
       <<14, 10>>,
       <<17, 13, 10>>,
       <<19, 15, 12, 10>>,
       <<21, 17, 14, 12, 10>>,
       <<23, 18, 16, 13, 12, 10>> >>

Idf(catalog, t) == IdfTable[Len(catalog)][Df(catalog, t)]

\* The dot product of the tf-idf vectors of catalog rows i and j: every
\* occurrence of a token t in row i adds tf_j(t) * idf(t)^2.
Dot(catalog, i, j) ==
    LET di == Tokens(catalog[i].kind)
        dj == Tokens(catalog[j].kind)
        term(t) == LET idf == Idf(catalog, t) IN Tf(dj, t) * idf * idf
    IN  SumSeq([p \in DOMAIN di |-> term(di[p])])

\* the least r with r * r >= x
RECURSIVE SqrtSearch(_, _, _)
SqrtSearch(x, lo, hi) ==
    IF lo >= hi THEN lo
    ELSE LET mid == (lo + hi) \div 2
         IN  IF mid * mid >= x THEN SqrtSearch(x, lo, mid) ELSE SqrtSearch(x, mid + 1, hi)

\* cosine_similarity of rows i and j, in hundredths, rounded down.  Rows with
\* the same feature text get exactly ScoreScale (1.0), as a row with itself.
cosine_similarity(catalog, i, j) ==
    LET ni == Dot(catalog, i, i)
        nj == Dot(catalog, j, j)
    IN  IF ni = 0 \/ nj = 0 THEN 0
        ELSE (ScoreScale * Dot(catalog, i, j))
                 \div SqrtSearch(ni * nj, 0, IF ni < nj THEN nj ELSE ni)

\* similarities.argsort(): an ascending order of the indices.  numpy's default
\* sort is not stable, so equal similarities come in either order.
argsort(sims) ==
    {p \in Perms(DOMAIN sims) :
        \A i \in 1..(Len(sims) - 1) : sims[p[i]] <= sims[p[i + 1]]}

\* p[-limit-1:-1][::-1]: the last limit+1 entries without the very last one,
\* in reverse.
TopSimilarSlice(p, limit) ==
    LET lo == IF Len(p) - limit - 1 < 0 THEN 0 ELSE Len(p) - limit - 1
    IN  [k \in 1..(Len(p) - 1 - lo) |-> p[Len(p) - k]]

\* The customer's ordered items: the set of purchased menu item ids.
OrderedItems(history) == {l.menu_item_id : l \in Range(Lines(history))}

\* Iteration order of a set of small ints in CPython: ascending.
RECURSIVE SetIteration(_)
SetIteration(S) ==
    IF S = {} THEN <<>>
    ELSE LET m == CHOOSE x \in S : \A y \in S : x <= y
         IN  <<m>> \o SetIteration(S \ {m})

CatalogIndex(catalog, id) == CHOOSE i \in DOMAIN catalog : catalog[i].id = id

\* (the same without the test `similar_item_id not in ordered_items`)
SimilarRecsUnfiltered(catalog, sims, indices, ordered_items) ==
    [k \in DOMAIN indices |->
        [item |-> catalog[indices[k]].id,
         score |-> sims[indices[k]],
         reason |-> [text |-> ReasonText("similarity"), n |-> 0],
         recommendation_type |-> "similarity"]]

\* The recommendations one ordered item adds, for one outcome p of argsort.
RECURSIVE SimilarRecs(_, _, _, _)
SimilarRecs(catalog, sims, indices, ordered_items) ==
    IF indices = <<>> THEN <<>>
    ELSE (IF catalog[Head(indices)].id \notin ordered_items
          THEN <<[item |-> catalog[Head(indices)].id,
                  score |-> sims[Head(indices)],
                  reason |-> [text |-> ReasonText("similarity"), n |-> 0],
                  recommendation_type |-> "similarity"]>>
          ELSE <<>>) \o SimilarRecs(catalog, sims, Tail(indices), ordered_items)

\* similarities: the cosine similarity of catalog row ix with every row.
RECURSIVE SimilarityRow(_, _, _)
SimilarityRow(catalog, ix, j) ==
    IF j > Len(catalog) THEN <<>>
    ELSE <<cosine_similarity(catalog, ix, j)>> \o SimilarityRow(catalog, ix, j + 1)

\* Every list one ordered item can add to `recommendations`.
SimilarTo(catalog, sims, ordered_items, limit) ==
    {SimilarRecs(catalog, sims, TopSimilarSlice(p, limit), ordered_items) : p \in argsort(sims)}

\* The loop over the ordered items: every list `recommendations` can be.
RECURSIVE SimilarCandidates(_, _, _, _)
SimilarCandidates(catalog, todo, ordered_items, limit) ==
    IF todo = <<>> THEN {<<>>}
    ELSE LET rest == SimilarCandidates(catalog, Tail(todo), ordered_items, limit)
         IN  IF ~InCatalog(catalog, Head(todo)) THEN rest
             ELSE LET ix == CatalogIndex(catalog, Head(todo))
                      heads == SimilarTo(catalog, SimilarityRow(catalog, ix, 1),
                                         ordered_items, limit)
                  IN  {h \o r : h \in heads, r \in rest}

\* Remove duplicates: first occurrence in score order, until limit are kept
\* (the length is tested after the append).
RECURSIVE UniqueRecs(_, _, _, _)
UniqueRecs(recs, seen, acc, limit) ==
    IF recs = <<>> THEN acc
    ELSE IF Head(recs).item \in seen THEN UniqueRecs(Tail(recs), seen, acc, limit)
         ELSE IF Len(acc) + 1 >= limit THEN Append(acc, Head(recs))
              ELSE UniqueRecs(Tail(recs), seen \cup {Head(recs).item},
                              Append(acc, Head(recs)), limit)

\* vectorizer.fit_transform raises ValueError (empty vocabulary) on a catalog
\* without a token; it is reached when the customer has ordered something.
SimilarityRaises(ords, menu, c) ==
    /\ OrderedItems(get_customer_order_history(ords, c)) # {}
    /\ Vocabulary(get_menu_items(menu)) = {}

\* Every outcome of _get_similarity_based_recommendations.
_get_similarity_based_recommendations(ords, menu, c, limit) ==
    LET order_history == get_customer_order_history(ords, c)
        all_menu_items == get_menu_items(menu)
        ordered_items == OrderedItems(order_history)
    IN  IF ordered_items = {} THEN {Return(<<>>)}
        ELSE IF SimilarityRaises(ords, menu, c) THEN {Raise("ValueError")}
        ELSE {Return(UniqueRecs(SortedByScoreDesc(recs), {}, <<>>, limit)) :
                 recs \in SimilarCandidates(all_menu_items, SetIteration(ordered_items),
                                            ordered_items, limit)}

\* --------------------------------------------------------- recency scorer
\* order['order_date'].replace('Z', '+00:00') then datetime.fromisoformat:
\* defined on an ISO string; a datetime object has no such replace (its
\* replace takes the fields year, month, ..., and raises TypeError).
ParsesAsIsoString(order_date) == order_date.pytype = "str"

\* ... > datetime.now() - timedelta(days=30)
IsRecent(order_date, t) == order_date.day > t - RecencyWindowDays

_get_recency_based_recommendations(ords, menu, c, limit, t) ==
    LET order_history == get_customer_order_history(ords, c)
        recent_orders == SelectSeq(order_history, LAMBDA o : IsRecent(o.order_date, t))
        recent_item_counts == CountLines(Lines(recent_orders), <<>>)
    IN  IF \E i \in DOMAIN order_history : ~ParsesAsIsoString(order_history[i].order_date)
        THEN Raise("TypeError")
        ELSE Return(CountRecs(most_common(recent_item_counts, limit),
                              get_menu_items(menu), "recency"))

\* ----------------------------------------------------- popularity fallback
\* The rows of order_items, over all orders.
RECURSIVE OrderItems(_)
OrderItems(ords) ==
    IF ords = <<>> THEN <<>> ELSE Head(ords).items \o OrderItems(Tail(ords))

\* DatabaseManager.get_popular_items: menu_items JOIN order_items WHERE
\* is_available GROUP BY mi.id, with COUNT and SUM(quantity).
PopularRows(ords, menu) ==
    LET lines == OrderItems(ords)
        of(id) == SelectSeq(lines, LAMBDA l : l.menu_item_id = id)
    IN  {[id |-> id,
          order_count |-> Len(of(id)),
          total_quantity |-> SumSeq([i \in DOMAIN of(id) |-> of(id)[i].quantity])] :
            id \in {i \in DOMAIN menu : menu[i].is_available /\ of(i) # <<>>}}

\* (ORDER BY order_count DESC alone)
PopularBeforeByCount(a, b) == a.order_count >= b.order_count

\* ORDER BY order_count DESC, total_quantity DESC: rows that agree on both
\* come in an order SQL leaves open.
PopularBefore(a, b) ==
    \/ a.order_count > b.order_count
    \/ a.order_count = b.order_count /\ a.total_quantity >= b.total_quantity

\* ... LIMIT limit
get_popular_items(ords, menu, limit) ==
    {Prefix(p, limit) :
        p \in {q \in Perms(PopularRows(ords, menu)) :
                  \A i \in 1..(Len(q) - 1) : PopularBefore(q[i], q[i + 1])}}

PopularRec(row) ==
    [item |-> row.id,
     score |-> row.order_count * ScoreScale,
     reason |-> [text |-> ReasonText("popular"), n |-> 0],
     recommendation_type |-> "popular"]

\* Every outcome of _get_popular_recommendations.
_get_popular_recommendations(ords, menu, limit) ==
    {Return([i \in DOMAIN rows |-> PopularRec(rows[i])]) :
        rows \in get_popular_items(ords, menu, limit)}

\* ---------------------------------------------------------------- combiner
\* (an accumulator that keeps the strategy tag of the first list only)
RECURSIVE AccumulateFirstTag(_, _, _)
AccumulateFirstTag(acc, rec, weight) ==
    IF acc = <<>>
    THEN <<[item |-> rec.item,
            score |-> rec.score * weight,
            reasons |-> <<rec.reason>>,
            types |-> {rec.recommendation_type}]>>
    ELSE IF Head(acc).item = rec.item
         THEN <<[item |-> rec.item,
                 score |-> Head(acc).score + rec.score * weight,
                 reasons |-> Append(Head(acc).reasons, rec.reason),
                 types |-> Head(acc).types]>> \o Tail(acc)
         ELSE <<Head(acc)>> \o AccumulateFirstTag(Tail(acc), rec, weight)

\* (an accumulator that is assigned, = for +=, so the last list wins)
RECURSIVE AccumulateAssign(_, _, _)
AccumulateAssign(acc, rec, weight) ==
    IF acc = <<>>
    THEN <<[item |-> rec.item,
            score |-> rec.score * weight,
            reasons |-> <<rec.reason>>,
            types |-> {rec.recommendation_type}]>>
    ELSE IF Head(acc).item = rec.item
         THEN <<[item |-> rec.item,
                 score |-> rec.score * weight,
                 reasons |-> Append(Head(acc).reasons, rec.reason),
                 types |-> Head(acc).types \cup {rec.recommendation_type}]>> \o Tail(acc)
         ELSE <<Head(acc)>> \o AccumulateAssign(Tail(acc), rec, weight)

\* combined_scores, a dict in insertion order, as the sequence of its
\* accumulators; one step of one of the three loops.
RECURSIVE Accumulate(_, _, _)
Accumulate(acc, rec, weight) ==
    IF acc = <<>>
    THEN <<[item |-> rec.item,
            score |-> rec.score * weight,
            reasons |-> <<rec.reason>>,
            types |-> {rec.recommendation_type}]>>
    ELSE IF Head(acc).item = rec.item
         THEN <<[item |-> rec.item,
                 score |-> Head(acc).score + rec.score * weight,
                 reasons |-> Append(Head(acc).reasons, rec.reason),
                 types |-> Head(acc).types \cup {rec.recommendation_type}]>> \o Tail(acc)
         ELSE <<Head(acc)>> \o Accumulate(Tail(acc), rec, weight)

RECURSIVE AccumulateAll(_, _, _)
AccumulateAll(acc, recs, weight) ==
    IF recs = <<>> THEN acc
    ELSE AccumulateAll(Accumulate(acc, Head(recs), weight), Tail(recs), weight)

\* list(set(...)) of strings: the iteration order of a set of strings follows
\* their hashes, which the process's hash seed fixes.  Seed 0 stands for the
\* seeds that give one order, seed 1 for those that give the reverse.
StringRank(x) ==
    CASE x = "frequency" -> 1
      [] x = "similarity" -> 2
      [] x = "recency" -> 3
      [] x = "popular" -> 4
      [] x = ReasonText("frequency") -> 1
      [] x = ReasonText("similarity") -> 2
      [] x = ReasonText("recency") -> 3
      [] OTHER -> 4

ReasonRank(r) == StringRank(r.text) * 1000 + r.n

\* The list of set S when rank[x] stands for the hash of x.
RECURSIVE ListOfSet(_, _, _)
ListOfSet(S, rank, seed) ==
    IF S = {} THEN <<>>
    ELSE LET x == CHOOSE y \in S :
                      \A z \in S : IF seed = 0 THEN rank[y] <= rank[z] ELSE rank[y] >= rank[z]
         IN  <<x>> \o ListOfSet(S \ {x}, rank, seed)

\* (the same without the limit of two reasons)
FinalRecAllReasons(data, seed) ==
    [item |-> data.item,
     score |-> data.score,
     reason |-> ListOfSet(Range(data.reasons),
                          [r \in Range(data.reasons) |-> ReasonRank(r)], seed),
     recommendation_types |-> ListOfSet(data.types, [x \in data.types |-> StringRank(x)], seed)]

\* One entry of final_recommendations.  reason is "; ".join(...) of at most
\* two distinct reasons, kept as the sequence of the joined strings.
FinalRec(data, seed) ==
    [item |-> data.item,
     score |-> data.score,
     reason |-> Prefix(ListOfSet(Range(data.reasons),
                                [r \in Range(data.reasons) |-> ReasonRank(r)], seed), 2),
     recommendation_types |-> ListOfSet(data.types, [x \in data.types |-> StringRank(x)], seed)]

_combine_recommendations(frequency_recs, similarity_recs, recency_recs, limit, seed) ==
    LET a1 == AccumulateAll(<<>>, frequency_recs, config.RECOMMENDATION_WEIGHT_FREQUENCY)
        a2 == AccumulateAll(a1, similarity_recs, config.RECOMMENDATION_WEIGHT_SIMILARITY)
        combined_scores == AccumulateAll(a2, recency_recs, config.RECOMMENDATION_WEIGHT_RECENCY)
        top == Prefix(SortedByScoreDesc(combined_scores), limit)
    IN  [i \in DOMAIN top |-> FinalRec(top[i], seed)]

\* ------------------------------------------------------------- the request
\* Every outcome of get_customer_recommendations(customer_id, limit) at time
\* t for a customer at the threshold: the scorers run in the order frequency,
\* similarity, recency, and the first exception of one propagates to the
\* caller; without one, the combiner's list is returned.
Personalised(ords, menu, c, limit, t, seed) ==
    LET frequency_recommendations ==
            _get_frequency_based_recommendations(ords, menu, c, limit * 2)
        recency_recommendations ==
            _get_recency_based_recommendations(ords, menu, c, limit * 2, t)
    IN  IF SimilarityRaises(ords, menu, c) THEN {Raise("ValueError")}
        ELSE IF recency_recommendations.kind = "raise" THEN {recency_recommendations}
        ELSE {Return(_combine_recommendations(frequency_recommendations.value,
                                              similarity_recommendations.value,
                                              recency_recommendations.value,
                                              limit, seed)) :
                 similarity_recommendations \in
                     _get_similarity_based_recommendations(ords, menu, c, limit * 2)}

\* (a threshold off by one: two orders already count as a history)
BelowThresholdOffByOne(history) == Len(history) < MIN_ORDERS_FOR_RECOMMENDATION - 1

\* len(order_history) < config.MIN_ORDERS_FOR_RECOMMENDATION
BelowThreshold(history) == Len(history) < MIN_ORDERS_FOR_RECOMMENDATION

get_customer_recommendations(ords, menu, c, limit, t, seed) ==
    IF BelowThreshold(get_customer_order_history(ords, c))
    THEN _get_popular_recommendations(ords, menu, limit)
    ELSE Personalised(ords, menu, c, limit, t, seed)

\* ----------------------------------------------------------------- calls
\* A call of the engine with its outcome; prev keeps the outcome of the same
\* call when it was the one made just before, on the same tables and clock.
Record(op, c, limit, args, out) ==
    /\ last' = Call(op, c, limit, args, out)
    /\ prev' = IF last.op = op /\ last.customer_id = c /\ last.limit = limit
                  /\ last.args = args
               THEN last ELSE NoCall
    /\ UNCHANGED <<customers, menu_items, orders, now, hashseed, config, customer_rows, flask, faces>>

\* (an engine that keeps the outcome of its last request and answers the next
\* request from it)
RecommendMemo(c, limit) ==
    IF last.op = "get_customer_recommendations"
    THEN Record("get_customer_recommendations", c, limit, <<>>, last.out)
    ELSE \E out \in get_customer_recommendations(orders, menu_items, c, limit, now, hashseed) :
             Record("get_customer_recommendations", c, limit, <<>>, out)

Recommend(c, limit) ==
    \E out \in get_customer_recommendations(orders, menu_items, c, limit, now, hashseed) :
        Record("get_customer_recommendations", c, limit, <<>>, out)

Frequency(c, limit) ==
    Record("frequency", c, limit, <<>>,
           _get_frequency_based_recommendations(orders, menu_items, c, limit))

Similarity(c, limit) ==
    \E out \in _get_similarity_based_recommendations(orders, menu_items, c, limit) :
        Record("similarity", c, limit, <<>>, out)

Recency(c, limit) ==
    Record("recency", c, limit, <<>>,
           _get_recency_based_recommendations(orders, menu_items, c, limit, now))

\* ------------------------------------------- the request, read by read
\* get_customer_recommendations as the sequence of its reads of storage, each
\* a statement of its own on a connection of its own: the history at line 19,
\* then either the popular items (line 23) or the reads of the three scorers.
\* last.args keeps what each read saw, and the tables at the time of the read.
Running == last.op \in {"request:popular", "request:frequency", "request:similarity",
                        "request:recency"}

Read(args, reads_catalog) ==
    [args EXCEPT
        !.histories = Append(@, get_customer_order_history(orders, last.customer_id)),
        !.catalogs = IF reads_catalog THEN Append(@, get_menu_items(menu_items)) ELSE @,
        !.tables = Append(@, [orders |-> orders, menu_items |-> menu_items])]

Step(op, args, out) ==
    /\ last' = Call(op, last.customer_id, last.limit, args, out)
    /\ UNCHANGED <<customers, menu_items, orders, now, hashseed, config, customer_rows, flask, faces, prev>>

\* order_history = self.db.get_customer_order_history(customer_id), and the
\* test of the threshold on it
StartRequest(c, limit) ==
    /\ last.op = "none"
    /\ LET order_history == get_customer_order_history(orders, c)
           args == [histories |-> <<order_history>>,
                    catalogs |-> <<>>,
                    tables |-> <<[orders |-> orders, menu_items |-> menu_items]>>,
                    frequency |-> <<>>,
                    similarity |-> <<>>]
       IN  last' = Call(IF BelowThreshold(order_history)
                        THEN "request:popular" ELSE "request:frequency",
                        c, limit, args, Return(<<>>))
    /\ UNCHANGED <<customers, menu_items, orders, now, hashseed, config, customer_rows, flask, faces, prev>>

\* return self._get_popular_recommendations(limit)
StepPopular ==
    /\ last.op = "request:popular"
    /\ \E out \in _get_popular_recommendations(orders, menu_items, last.limit) :
           Step("request:done",
                [last.args EXCEPT !.tables = Append(@, [orders |-> orders,
                                                         menu_items |-> menu_items])],
                out)

StepFrequency ==
    /\ last.op = "request:frequency"
    /\ LET out == _get_frequency_based_recommendations(orders, menu_items,
                                                        last.customer_id, last.limit * 2)
       IN  Step("request:similarity",
                [Read(last.args, out.value # <<>>) EXCEPT !.frequency = out.value],
                Return(<<>>))

StepSimilarity ==
    /\ last.op = "request:similarity"
    /\ \E out \in _get_similarity_based_recommendations(orders, menu_items,
                                                        last.customer_id, last.limit * 2) :
           IF out.kind = "raise"
           THEN Step("request:done", Read(last.args, TRUE), out)
           ELSE Step("request:recency",
                     [Read(last.args, TRUE) EXCEPT !.similarity = out.value],
                     Return(<<>>))

\* the recency scorer, then the combiner, which reads nothing
StepRecency ==
    /\ last.op = "request:recency"
    /\ LET out == _get_recency_based_recommendations(orders, menu_items, last.customer_id,
                                                      last.limit * 2, now)
           args == Read(last.args, out.kind = "return" /\ out.value # <<>>)
       IN  IF out.kind = "raise"
           THEN Step("request:done", args, out)
           ELSE Step("request:done", args,
                     Return(_combine_recommendations(last.args.frequency,
                                                     last.args.similarity,
                                                     out.value, last.limit, hashseed)))

\* DatabaseManager.add_order by another request of the application, while
\* this one runs.
concurrent_add_order(c, items) ==
    /\ Running
    /\ Len(orders) < MaxOrders + MaxConcurrentWrites
    /\ c \in 1..customers
    /\ \A i \in DOMAIN items : items[i].menu_item_id \in DOMAIN menu_items
    /\ orders' = Append(orders, [customer_id |-> c, order_date |-> now, items |-> items,
                                 total_amount |-> total_amount(items)])
    /\ UNCHANGED <<customers, menu_items, now, hashseed, config, customer_rows, flask, faces, last, prev>>

\* DatabaseManager.add_menu_item by another request, while this one runs.
concurrent_add_menu_item(k) ==
    /\ Running
    /\ Len(menu_items) < MaxMenu
    /\ menu_items' = Append(menu_items, [kind |-> k, is_available |-> TRUE])
    /\ UNCHANGED <<customers, orders, now, hashseed, config, customer_rows, flask, faces, last, prev>>

\* RecommendationEngine.__init__: self.db = DatabaseManager(), and nothing
\* else; the engine a deployment first configured is now ready for a call.
__init__ ==
    /\ last.op = "configured"
    /\ last' = [last EXCEPT !.op = "pending"]
    /\ UNCHANGED <<customers, menu_items, orders, now, hashseed, config, customer_rows, flask, faces, prev>>

Popular(limit) ==
    \E out \in _get_popular_recommendations(orders, menu_items, limit) :
        Record("popular", 0, limit, <<>>, out)

\* The combiner applied to the three lists a pending call holds.
Combine ==
    /\ last.op = "pending"
    /\ last' = Call("combine", 0, last.limit, last.args,
                    Return(_combine_recommendations(last.args[1], last.args[2], last.args[3],
                                                    last.limit, hashseed)))
    /\ UNCHANGED <<customers, menu_items, orders, now, hashseed, config, customer_rows, flask, faces, prev>>

\* ------------------------------------------------------------------ inputs
\* Customer ids of a call: the known ones and one unknown id.
CallIds == 1..(customers + 1)

\* The scorers are called for the first customer and for an unknown id.
ScorerIds == {1, customers + 1}

Limits == 0..MaxLimit

\* The quantities submitted with an order form, one per menu item: forms with
\* one item chosen, in a quantity of Q.
Forms(Q) ==
    {qty \in [DOMAIN menu_items -> {0} \cup Q] :
        Cardinality({i \in DOMAIN menu_items : qty[i] > 0}) = 1}

\* Lists of recommendations as a scorer returns them: no item twice.
Recs(strategy, items, scores, maxlen) ==
    LET rec(i, sc) == [item |-> i,
                       score |-> sc,
                       reason |-> [text |-> ReasonText(strategy),
                                   n |-> IF strategy = "similarity" THEN 0
                                         ELSE sc \div ScoreScale],
                       recommendation_type |-> strategy]
        all == {rec(i, sc) : i \in items, sc \in scores}
    IN  UNION {{s \in [1..n -> all] : \A a, b \in 1..n : a # b => s[a].item # s[b].item} :
                  n \in 0..maxlen}

\* ------------------------------------------------------------ the actions
AddCustomer == add_customer

\* The first customer registers.
AddFirstCustomer == customers = 0 /\ add_customer

AddMenuItem == \E k \in Kinds : add_menu_item(k)

AddEspresso == add_menu_item("espresso")

Order == \E qty \in Forms(1..MaxQty) : create_order(1, qty)

OrderOne == \E qty \in Forms({1}) : create_order(1, qty)

OrderOneOrTwo == \E c \in 1..customers, qty \in Forms({1, 2}) : create_order(c, qty)

Pass == \E d \in {RecencyWindowDays - 1, RecencyWindowDays, RecencyWindowDays + 1} : Tick(d)

MigrateUnavailable == migrate_unavailable_item("espresso")

MigrateOrder ==
    \E id \in DOMAIN menu_items, q \in {1, 2} :
        migrate_order(1, <<Line(id, q)>>, now)

MigrateOrderOne ==
    \E id \in DOMAIN menu_items :
        migrate_order(1, <<Line(id, 1)>>, now)

CallRecommend == \E c \in CallIds, n \in Limits : Recommend(c, n)

CallFrequency == \E c \in ScorerIds, n \in Limits : Frequency(c, n)

CallSimilarity == \E c \in ScorerIds, n \in Limits : Similarity(c, n)

CallRecency == \E c \in ScorerIds, n \in Limits : Recency(c, n)

CallPopular == \E n \in Limits : Popular(n)

CallCombine == Combine

\* ------------------------------------------------------ the specifications
\* The engine's request on the tables the routes fill.
Next == AddCustomer \/ AddEspresso \/ OrderOneOrTwo \/ CallRecommend

Spec == Init /\ [][Next]_vars

\* The frequency scorer.
NextFrequency == AddFirstCustomer \/ AddEspresso \/ Order \/ CallFrequency

SpecFrequency == Init /\ [][NextFrequency]_vars

\* The similarity scorer.
NextSimilarity == AddFirstCustomer \/ AddMenuItem \/ OrderOne \/ CallSimilarity

SpecSimilarity == Init /\ [][NextSimilarity]_vars

\* The recency scorer, as time passes.
NextRecency == AddFirstCustomer \/ AddEspresso \/ OrderOne \/ Pass \/ CallRecency

SpecRecency == Init /\ [][NextRecency]_vars

\* The engine's request on tables the migration filled: unavailable menu
\* items, and orders of them.
NextMigration ==
    \/ AddFirstCustomer \/ AddEspresso \/ MigrateUnavailable \/ MigrateOrder
    \/ CallRecommend \/ CallPopular

SpecMigration == Init /\ [][NextMigration]_vars

\* The combiner on the lists scorers can return, under either hash seed.
InitCombine ==
    /\ customers = 0
    /\ menu_items = <<>>
    /\ orders = <<>>
    /\ now = 0
    /\ hashseed \in {0, 1}
    /\ config = ConfigFile
    /\ \E f \in Recs("frequency", {1, 2}, {ScoreScale, 10 * ScoreScale}, MaxListLen),
          s \in Recs("similarity", {1, 2}, {80, ScoreScale}, MaxListLen),
          r \in Recs("recency", {1, 2}, {ScoreScale, 10 * ScoreScale}, MaxListLen),
          n \in Limits :
           last = Call("pending", 0, n, <<f, s, r>>, Return(<<>>))
    /\ prev = NoCall
    /\ InitCustomers /\ InitFlask /\ InitFaces

NextCombine == CallCombine

SpecCombine == InitCombine /\ [][NextCombine]_vars

\* The three scorers on tables that hold unavailable menu items and orders
\* of them.
NextRemoved ==
    \/ AddFirstCustomer \/ AddEspresso \/ MigrateUnavailable \/ MigrateOrderOne
    \/ CallFrequency \/ CallSimilarity \/ CallRecency

SpecRemoved == Init /\ [][NextRemoved]_vars

\* The request read by read, with orders and menu items written meanwhile.
Quiet == last.op = "none"

SetUp ==
    Quiet /\ (AddFirstCustomer \/ AddEspresso \/ OrderOne)

Start == \E c \in ScorerIds, n \in Limits : StartRequest(c, n)

Advance == StepPopular \/ StepFrequency \/ StepSimilarity \/ StepRecency

Meanwhile ==
    \/ \E id \in DOMAIN menu_items :
           concurrent_add_order(1, <<Line(id, 1)>>)
    \/ concurrent_add_menu_item("espresso")

NextConcurrent == SetUp \/ Start \/ Advance \/ Meanwhile

SpecConcurrent == Init /\ [][NextConcurrent]_vars

\* The engine built under a configuration whose weights a deployment chose,
\* then the combiner.
Weights == {RECOMMENDATION_WEIGHT_RECENCY, RECOMMENDATION_WEIGHT_FREQUENCY}

InitConfig ==
    /\ customers = 0
    /\ menu_items = <<>>
    /\ orders = <<>>
    /\ now = 0
    /\ hashseed = 0
    /\ config \in [DOMAIN ConfigFile -> Weights]
    /\ \E f \in Recs("frequency", {1}, {ScoreScale, 10 * ScoreScale}, 1),
          s \in Recs("similarity", {1}, {80}, 1),
          r \in Recs("recency", {1, 2}, {ScoreScale}, 1),
          n \in Limits :
           last = Call("configured", 0, n, <<f, s, r>>, Return(<<>>))
    /\ prev = NoCall
    /\ InitCustomers /\ InitFlask /\ InitFaces

Construct == __init__

NextConfig == Construct \/ CallCombine

SpecConfig == InitConfig /\ [][NextConfig]_vars

\* ------------------------------------------------ complementary items
\* The sample menu of populate_sample_data has pastries beside the kinds above.
PairingKinds == Kinds \cup {"croissant"}

\* [item for item in menu_items if item['category'] == 'food' and
\*  item['subcategory'] == 'pastry']
Pastries(catalog) ==
    SelectSeq(catalog, LAMBDA it : Category(it.kind) = "food" /\ Subcategory(it.kind) = "pastry")

\* [item for item in menu_items if item['category'] == 'drink']
Drinks(catalog) == SelectSeq(catalog, LAMBDA it : Category(it.kind) = "drink")

\* The loop over given_items: two pastries for a coffee, two drinks for a
\* sandwich or a salad, nothing for any other item.
RECURSIVE Complementary(_, _, _)
Complementary(given_items, catalog, i) ==
    IF i > Len(given_items) THEN <<>>
    ELSE LET k == given_items[i].kind
         IN  (IF Category(k) = "drink" /\ Subcategory(k) = "coffee"
                THEN Prefix(Pastries(catalog), 2)
              ELSE IF Category(k) = "food" /\ Subcategory(k) \in {"sandwich", "salad"}
                THEN Prefix(Drinks(catalog), 2)
              ELSE <<>>)
             \o Complementary(given_items, catalog, i + 1)

\* The loop that removes duplicates: the length is compared with the limit
\* after an entry was appended.
RECURSIVE UniqueComplementary(_, _, _, _, _, _)
UniqueComplementary(complementary, i, seen, unique_complementary, item_ids, limit) ==
    IF i > Len(complementary) THEN unique_complementary
    ELSE LET item == complementary[i]
         IN  IF item.id \notin seen /\ item.id \notin item_ids
             THEN LET appended ==
                          Append(unique_complementary,
                                 [item |-> item,
                                  reason |-> "Great combination with your selection",
                                  recommendation_type |-> "complementary"])
                  IN  IF Len(appended) >= limit THEN appended
                      ELSE UniqueComplementary(complementary, i + 1, seen \cup {item.id},
                                               appended, item_ids, limit)
             ELSE UniqueComplementary(complementary, i + 1, seen,
                                      unique_complementary, item_ids, limit)

get_complementary_items(menu, item_ids, limit) ==
    LET catalog == get_menu_items(menu)
        given_items == SelectSeq(catalog, LAMBDA it : it.id \in item_ids)
    IN  UniqueComplementary(Complementary(given_items, catalog, 1), 1, {}, <<>>,
                            item_ids, limit)

GetComplementary(item_ids, limit) ==
    Record("complementary", 0, limit, item_ids,
           Return(get_complementary_items(menu_items, item_ids, limit)))

AddPairingItem == \E k \in PairingKinds : add_menu_item(k)

CallComplementary ==
    \E item_ids \in SUBSET (1..MaxMenu), n \in Limits : GetComplementary(item_ids, n)

NextComplementary == AddPairingItem \/ MigrateUnavailable \/ CallComplementary

SpecComplementary == Init /\ [][NextComplementary]_vars

\* ------------------------------------------------------- face recognition
Persons == 1..MaxPersons

\* What detect_faces_in_frame finds in a frame: the faces, each the face of a
\* person, in the order of detection.
Frames == UNION {[1..n -> Persons] : n \in 0..MaxFaces}

\* np.argmin(face_distances): the first of the nearest known encodings; an
\* encoding of the same person is nearer than any other.
BestMatchIndex(face_encoding) ==
    IF \E i \in DOMAIN known_face_encodings : known_face_encodings[i] = face_encoding
    THEN CHOOSE i \in DOMAIN known_face_encodings :
             /\ known_face_encodings[i] = face_encoding
             /\ \A j \in 1..(i - 1) : known_face_encodings[j] # face_encoding
    ELSE 1

\* matches[best_match_index] and face_distances[best_match_index] <
\* config.MAX_FACE_DISTANCE
Matches(face_encoding) ==
    /\ known_face_encodings # <<>>
    /\ known_face_encodings[BestMatchIndex(face_encoding)] = face_encoding

\* self.known_customer_ids[best_match_index] or
\* self.known_face_names[best_match_index] raises IndexError.
RecognizeRaises(face_encodings) ==
    \E i \in DOMAIN face_encodings :
        /\ Matches(face_encodings[i])
        /\ \/ BestMatchIndex(face_encodings[i]) \notin DOMAIN known_customer_ids
           \/ BestMatchIndex(face_encodings[i]) \notin DOMAIN known_face_names

\* FaceRecognitionManager.recognize_faces: a dict for a known face, None for
\* an unknown one.
recognize_faces(face_encodings) ==
    [i \in DOMAIN face_encodings |->
        IF Matches(face_encodings[i])
        THEN [customer_id |-> known_customer_ids[BestMatchIndex(face_encodings[i])],
              name |-> known_face_names[BestMatchIndex(face_encodings[i])]]
        ELSE None]

\* ------------------------------------------------------------ video stream
\* The loop over the faces of a frame: db_manager.update_customer_visit for
\* every recognized face.
RECURSIVE VisitsAfter(_, _)
VisitsAfter(rows, recognized_customers) ==
    IF recognized_customers = <<>> THEN rows
    ELSE LET customer_info == Head(recognized_customers)
             counted == IF customer_info = None THEN rows
                        ELSE [i \in DOMAIN rows |->
                                 IF i = customer_info.customer_id
                                 THEN [rows[i] EXCEPT !.visit_count = @ + 1]
                                 ELSE rows[i]]
         IN  VisitsAfter(counted, Tail(recognized_customers))

Streaming == stream.pc \notin {"none", "exited", "raised"}

StreamStep(pc) ==
    /\ stream.pc = pc
    /\ UNCHANGED <<shop, faces, video_active, recognition_active, control>>

\* while video_active:
StreamWhile ==
    /\ StreamStep("while")
    /\ stream' = [stream EXCEPT !.pc = IF video_active THEN "camera" ELSE "exited"]
    /\ UNCHANGED <<customer_rows, camera, latest_recognition_result, captures>>

\* if camera is None:
StreamCamera ==
    /\ StreamStep("camera")
    /\ stream' = [stream EXCEPT !.pc = IF camera = 0 THEN "open" ELSE "read"]
    /\ UNCHANGED <<customer_rows, camera, latest_recognition_result, captures>>

\* camera = cv2.VideoCapture(config.CAMERA_INDEX): the device opens or not.
StreamOpen ==
    /\ StreamStep("open")
    /\ Len(captures) < MaxCaptures
    /\ \E state \in {"opened", "failed"} : captures' = Append(captures, state)
    /\ camera' = Len(captures) + 1
    /\ stream' = [stream EXCEPT !.pc = "isOpened"]
    /\ UNCHANGED <<customer_rows, latest_recognition_result>>

\* if not camera.isOpened(): break
StreamIsOpened ==
    /\ StreamStep("isOpened")
    /\ stream' = [stream EXCEPT !.pc = IF camera = 0 THEN "raised"
                                       ELSE IF captures[camera] = "opened" THEN "read"
                                       ELSE "exited"]
    /\ UNCHANGED <<customer_rows, camera, latest_recognition_result, captures>>

\* success, frame = camera.read(); if not success: break.  The global is
\* read again: None has no read(), a released or unopened capture gives no
\* frame, an open one gives a frame or fails.
StreamRead ==
    /\ StreamStep("read")
    /\ \/ /\ camera = 0
          /\ stream' = [stream EXCEPT !.pc = "raised", !.read_on = "None"]
       \/ /\ camera # 0 /\ captures[camera] # "opened"
          /\ stream' = [stream EXCEPT !.pc = "exited", !.read_on = captures[camera]]
       \/ /\ camera # 0 /\ captures[camera] = "opened"
          /\ \/ stream' = [stream EXCEPT !.pc = "exited", !.read_on = "opened"]
             \/ \E frame \in Frames :
                    stream' = [stream EXCEPT !.pc = "frame", !.read_on = "opened",
                                             !.frame = frame]
    /\ UNCHANGED <<customer_rows, camera, latest_recognition_result, captures>>

\* if recognition_active: ... ; then the frame is encoded and yielded.
StreamFrame ==
    /\ StreamStep("frame")
    /\ IF recognition_active /\ ~RecognizeRaises(stream.frame)
       THEN LET recognized_customers == recognize_faces(stream.frame)
            IN  /\ \A i \in DOMAIN customer_rows :
                       VisitsAfter(customer_rows, recognized_customers)[i].visit_count
                           <= 1 + MaxOrders + MaxVisits
                /\ latest_recognition_result' =
                       IF recognized_customers = <<>> THEN latest_recognition_result
                       ELSE recognized_customers[Len(recognized_customers)]
                /\ customer_rows' = VisitsAfter(customer_rows, recognized_customers)
                /\ stream' = [stream EXCEPT !.pc = "while",
                                            !.recognized = recognized_customers]
       ELSE /\ stream' = [stream EXCEPT !.pc = "while", !.recognized = <<>>]
            /\ UNCHANGED <<customer_rows, latest_recognition_result>>
    /\ UNCHANGED <<camera, captures>>

generate_frames ==
    \/ StreamWhile \/ StreamCamera \/ StreamOpen \/ StreamIsOpened
    \/ StreamRead \/ StreamFrame

\* ---------------------------------------------------------------- routes
Idle == control.pc = "returned"

\* /video_feed: video_active = True, and the response iterates a new
\* generator.
video_feed ==
    /\ Idle
    /\ ~Streaming
    /\ video_active' = TRUE
    /\ stream' = [NoStream EXCEPT !.pc = "while"]
    /\ control' = [route |-> "video_feed", pc |-> "returned"]
    /\ UNCHANGED <<shop, faces, customer_rows, camera, recognition_active,
                   latest_recognition_result, captures>>

\* /api/start_recognition
start_recognition ==
    /\ Idle
    /\ recognition_active' = TRUE
    /\ video_active' = TRUE
    /\ control' = [route |-> "start_recognition", pc |-> "returned"]
    /\ UNCHANGED <<shop, faces, customer_rows, camera, latest_recognition_result,
                   captures, stream>>

\* /api/stop_recognition, statement by statement.
StopStep(pc, next) ==
    /\ control.route = "stop_recognition"
    /\ control.pc = pc
    /\ control' = [control EXCEPT !.pc = next]
    /\ UNCHANGED <<shop, faces, customer_rows, latest_recognition_result, stream>>

StopRequest ==
    /\ Idle
    /\ control' = [route |-> "stop_recognition", pc |-> "recognition_active"]
    /\ UNCHANGED <<shop, faces, customer_rows, camera, video_active, recognition_active,
                   latest_recognition_result, captures, stream>>

StopRecognitionActive ==
    /\ StopStep("recognition_active", "video_active")
    /\ recognition_active' = FALSE
    /\ UNCHANGED <<camera, video_active, captures>>

StopVideoActive ==
    /\ StopStep("video_active", "if camera")
    /\ video_active' = FALSE
    /\ UNCHANGED <<camera, recognition_active, captures>>

StopIfCamera ==
    /\ StopStep("if camera", IF camera # 0 THEN "release" ELSE "returned")
    /\ UNCHANGED <<camera, video_active, recognition_active, captures>>

StopRelease ==
    /\ StopStep("release", "camera = None")
    /\ captures' = [captures EXCEPT ![camera] = "released"]
    /\ UNCHANGED <<camera, video_active, recognition_active>>

StopCameraNone ==
    /\ StopStep("camera = None", "returned")
    /\ camera' = 0
    /\ UNCHANGED <<video_active, recognition_active, captures>>

stop_recognition ==
    \/ StopRequest \/ StopRecognitionActive \/ StopVideoActive \/ StopIfCamera
    \/ StopRelease \/ StopCameraNone

NextStream == video_feed \/ start_recognition \/ stop_recognition \/ generate_frames

SpecStream == Init /\ [][NextStream]_vars

\* ------------------------------------------------------------ face capture
\* A folder of config.CUSTOMER_DIR: customer_<id>_<name>, with or without
\* the encodings file (a list of encodings) and metadata.json (which holds
\* the folder's customer_id and name).
NewFolder(c, n) == [customer_id |-> c, name |-> n, encodings |-> <<>>, metadata |-> FALSE]

HasFolder(c, n) == \E f \in customer_dir : f.customer_id = c /\ f.name = n

Folder(c, n) == CHOOSE f \in customer_dir : f.customer_id = c /\ f.name = n

CaptureStep(pc) ==
    /\ capture.pc = pc
    /\ UNCHANGED <<shop, customer_rows, camera, video_active, recognition_active,
                   latest_recognition_result, stream, control>>

\* cap = cv2.VideoCapture(config.CAMERA_INDEX); if not cap.isOpened(): return
\* False
CaptureOpen ==
    /\ CaptureStep("open")
    /\ Len(captures) < MaxCaptures
    /\ \/ /\ captures' = Append(captures, "failed")
          /\ capture' = [capture EXCEPT !.pc = "returned", !.result = "False"]
       \/ /\ captures' = Append(captures, "opened")
          /\ capture' = [capture EXCEPT !.pc = "makedirs", !.cap = Len(captures) + 1]
    /\ UNCHANGED <<known_face_encodings, known_face_names, known_customer_ids, customer_dir>>

\* os.makedirs(customer_path, exist_ok=True)
CaptureMakedirs ==
    /\ CaptureStep("makedirs")
    /\ customer_dir' = IF HasFolder(capture.customer_id, capture.name) THEN customer_dir
                       ELSE customer_dir \cup {NewFolder(capture.customer_id, capture.name)}
    /\ capture' = [capture EXCEPT !.pc = "while"]
    /\ UNCHANGED <<known_face_encodings, known_face_names, known_customer_ids, captures>>

\* One turn of the loop `while captured_count < num_photos`: the read fails,
\* or SPACE is pressed on a frame with exactly one face, or ESC is pressed.
\* A turn with another key, or with SPACE on another frame, changes nothing.
\* The persons who sit for the photos are those of `sitters`.
CaptureWhile(sitters) ==
    /\ CaptureStep("while")
    /\ IF Len(capture.captured_encodings) < num_photos
       THEN \/ /\ capture' = [capture EXCEPT !.pc = "release"]
               /\ UNCHANGED captures
            \/ /\ \E frame \in Frames :
                      /\ Len(frame) = 1
                      /\ frame[1] \in sitters
                      /\ capture' = [capture EXCEPT !.captured_encodings = Append(@, frame[1])]
               /\ UNCHANGED captures
            \/ /\ captures' = [captures EXCEPT ![capture.cap] = "released"]
               /\ capture' = [capture EXCEPT !.pc = "returned", !.result = "False"]
       ELSE /\ capture' = [capture EXCEPT !.pc = "release"]
            /\ UNCHANGED captures
    /\ UNCHANGED <<known_face_encodings, known_face_names, known_customer_ids, customer_dir>>

\* cap.release(); if captured_count == num_photos: ... ; return False
CaptureRelease ==
    /\ CaptureStep("release")
    /\ captures' = [captures EXCEPT ![capture.cap] = "released"]
    /\ capture' = IF Len(capture.captured_encodings) = num_photos
                  THEN [capture EXCEPT !.pc = "dump"]
                  ELSE [capture EXCEPT !.pc = "returned", !.result = "False"]
    /\ UNCHANGED <<known_face_encodings, known_face_names, known_customer_ids, customer_dir>>

\* pickle.dump(captured_encodings, f)
CaptureDump ==
    /\ CaptureStep("dump")
    /\ customer_dir' =
           (customer_dir \ {Folder(capture.customer_id, capture.name)})
           \cup {[Folder(capture.customer_id, capture.name)
                     EXCEPT !.encodings = <<capture.captured_encodings>>]}
    /\ capture' = [capture EXCEPT !.pc = "metadata"]
    /\ UNCHANGED <<known_face_encodings, known_face_names, known_customer_ids, captures>>

\* json.dump(metadata, f, indent=2)
CaptureMetadata ==
    /\ CaptureStep("metadata")
    /\ customer_dir' =
           (customer_dir \ {Folder(capture.customer_id, capture.name)})
           \cup {[Folder(capture.customer_id, capture.name) EXCEPT !.metadata = TRUE]}
    /\ capture' = [capture EXCEPT !.pc = "load_known_faces"]
    /\ UNCHANGED <<known_face_encodings, known_face_names, known_customer_ids, captures>>

\* load_known_faces, statement by statement.
\* self.known_face_encodings = []
LoadResetEncodings ==
    /\ CaptureStep("load_known_faces")
    /\ known_face_encodings' = <<>>
    /\ capture' = [capture EXCEPT !.pc = "names = []"]
    /\ UNCHANGED <<known_face_names, known_customer_ids, customer_dir, captures>>

\* self.known_face_names = []
LoadResetNames ==
    /\ CaptureStep("names = []")
    /\ known_face_names' = <<>>
    /\ capture' = [capture EXCEPT !.pc = "ids = []"]
    /\ UNCHANGED <<known_face_encodings, known_customer_ids, customer_dir, captures>>

\* self.known_customer_ids = []; os.listdir(config.CUSTOMER_DIR)
LoadResetIds ==
    /\ CaptureStep("ids = []")
    /\ known_customer_ids' = <<>>
    /\ capture' = [capture EXCEPT !.pc = "for folder", !.todo = customer_dir]
    /\ UNCHANGED <<known_face_encodings, known_face_names, customer_dir, captures>>

\* for customer_folder in os.listdir(...): the folders come in any order; one
\* without metadata or without encodings is passed over.
LoadFolder ==
    /\ CaptureStep("for folder")
    /\ IF capture.todo = {}
       THEN capture' = [capture EXCEPT !.pc = "returned", !.result = "True"]
       ELSE \E f \in capture.todo :
                capture' = IF f.metadata /\ f.encodings # <<>>
                           THEN [capture EXCEPT !.pc = "for encoding", !.todo = @ \ {f},
                                                !.folder = <<f>>, !.k = 1]
                           ELSE [capture EXCEPT !.todo = @ \ {f}]
    /\ UNCHANGED <<known_face_encodings, known_face_names, known_customer_ids,
                   customer_dir, captures>>

\* for encoding in encodings: self.known_face_encodings.append(encoding)
LoadAppendEncoding ==
    /\ CaptureStep("for encoding")
    /\ IF capture.k > Len(capture.folder[1].encodings[1])
       THEN /\ capture' = [capture EXCEPT !.pc = "for folder"]
            /\ UNCHANGED known_face_encodings
       ELSE /\ known_face_encodings' =
                   Append(known_face_encodings, capture.folder[1].encodings[1][capture.k])
            /\ capture' = [capture EXCEPT !.pc = "names.append"]
    /\ UNCHANGED <<known_face_names, known_customer_ids, customer_dir, captures>>

\* self.known_face_names.append(metadata['name'])
LoadAppendName ==
    /\ CaptureStep("names.append")
    /\ known_face_names' = Append(known_face_names, capture.folder[1].name)
    /\ capture' = [capture EXCEPT !.pc = "ids.append"]
    /\ UNCHANGED <<known_face_encodings, known_customer_ids, customer_dir, captures>>

\* self.known_customer_ids.append(metadata['customer_id'])
LoadAppendId ==
    /\ CaptureStep("ids.append")
    /\ known_customer_ids' = Append(known_customer_ids, capture.folder[1].customer_id)
    /\ capture' = [capture EXCEPT !.pc = "for encoding", !.k = @ + 1]
    /\ UNCHANGED <<known_face_encodings, known_face_names, customer_dir, captures>>

load_known_faces ==
    \/ LoadResetEncodings \/ LoadResetNames \/ LoadResetIds
    \/ LoadFolder \/ LoadAppendEncoding \/ LoadAppendName \/ LoadAppendId

capture_and_save_face(sitters) ==
    \/ CaptureOpen \/ CaptureMakedirs \/ CaptureWhile(sitters) \/ CaptureRelease
    \/ CaptureDump \/ CaptureMetadata \/ load_known_faces

\* ------------------------------------------------------ customer routes
\* What the form of /add_customer can hold: a name, and an email that is ''
\* when the field was left empty.
Names == {"Ann", "Bob"}

Emails == {"", "ann@cafe.example"}

\* email VARCHAR(255) UNIQUE: a second row with the same email, the empty
\* string included, is an IntegrityError; NULLs never meet.
EmailTaken(email) ==
    /\ email # "NULL"
    /\ \E i \in DOMAIN customer_rows : customer_rows[i].email = email

\* POST /add_customer up to the call of capture_and_save_face: the row is
\* inserted and committed, or the INSERT raises and the request ends with
\* status 500.
AddCustomerPost(name, email) ==
    /\ Idle
    /\ capture.pc = "idle"
    /\ customers < MaxCustomers
    /\ LET retry == /\ control.route = "add_customer"
                    /\ control.response = "add_customer"
                    /\ control.name = name
                    /\ control.email = email
       IN  IF EmailTaken(email)
           THEN /\ control' = [route |-> "add_customer", pc |-> "returned", response |-> "500",
                               name |-> name, email |-> email, customer_id |-> 0,
                               retry |-> retry]
                /\ UNCHANGED <<customers, customer_rows, last, prev, capture>>
           ELSE /\ customers' = customers + 1
                /\ customer_rows' = Append(customer_rows, [email |-> email, visit_count |-> 1])
                /\ last' = NoCall
                /\ prev' = NoCall
                /\ control' = [route |-> "add_customer", pc |-> "capture", response |-> "none",
                               name |-> name, email |-> email, customer_id |-> customers + 1,
                               retry |-> retry]
                /\ capture' = [NoCapture EXCEPT !.pc = "open", !.customer_id = customers + 1,
                                                !.name = name]
    /\ UNCHANGED <<menu_items, orders, now, hashseed, config, camera, video_active,
                   recognition_active, latest_recognition_result, captures, stream,
                   known_face_encodings, known_face_names, known_customer_ids, customer_dir>>

\* success = face_manager.capture_and_save_face(customer_id, name) has
\* returned: redirect to customer_detail, or back to add_customer.
AddCustomerReturn ==
    /\ control.route = "add_customer"
    /\ control.pc = "capture"
    /\ capture.pc = "returned"
    /\ control' = [control EXCEPT !.pc = "returned",
                                  !.response = IF capture.result = "True" THEN "customer_detail"
                                               ELSE "add_customer"]
    /\ capture' = NoCapture
    /\ UNCHANGED <<shop, customer_rows, camera, video_active, recognition_active,
                   latest_recognition_result, captures, stream,
                   known_face_encodings, known_face_names, known_customer_ids, customer_dir>>

add_customer_route ==
    \/ \E name \in Names, email \in Emails : AddCustomerPost(name, email)
    \/ AddCustomerReturn

NextRegister == add_customer_route \/ capture_and_save_face(Persons)

SpecRegister == Init /\ [][NextRegister]_vars

\* /api/get_latest_recognition: for a result that is not None the customer
\* is looked up and get_customer_recommendations(customer_id, limit=3) is
\* called, with no handler for an exception of it.
get_latest_recognition ==
    /\ Idle
    /\ \E out \in IF latest_recognition_result = None THEN {Return(<<>>)}
                  ELSE get_customer_recommendations(orders, menu_items,
                                                    latest_recognition_result.customer_id,
                                                    3, now, hashseed) :
           control' = [route |-> "get_latest_recognition", pc |-> "returned",
                       result |-> latest_recognition_result,
                       response |->
                           IF out.kind = "raise"
                           THEN [status |-> 500, recognized |-> FALSE, recommendations |-> <<>>]
                           ELSE [status |-> 200,
                                 recognized |-> latest_recognition_result # None,
                                 recommendations |-> out.value]]
    /\ UNCHANGED <<shop, faces, customer_rows, camera, video_active, recognition_active,
                   latest_recognition_result, captures, stream>>

\* One customer registers with the face of person 1 and orders; then the
\* stream runs and recognizes.
Closed == stream.pc = "none" /\ Idle

RegisterFirst == Closed /\ customers = 0 /\ AddCustomerPost("Ann", "")

OrderFirst == Closed /\ (AddEspresso \/ OrderOne)

NextRecognition ==
    \/ RegisterFirst \/ AddCustomerReturn \/ capture_and_save_face({1})
    \/ OrderFirst
    \/ video_feed \/ start_recognition \/ stop_recognition \/ generate_frames
    \/ get_latest_recognition

SpecRecognition == Init /\ [][NextRecognition]_vars

\* ----------------------------------------------------------- order route
\* The values of the fields quantity_<id> of the order form, as the browser
\* sends them: text.
FormValues == {"", "0", "2"}

\* int(value) raises ValueError for text that is no integer.
IsInt(value) == value \in {"0", "1", "2"}

int(value) == CASE value = "0" -> 0 [] value = "1" -> 1 [] value = "2" -> 2

\* POST /create_order: the quantities are parsed, the lines are built from
\* the available menu, add_order and update_customer_visit are called; any
\* exception (a field that is no integer, a customer_id that table orders
\* cannot reference) is caught and nothing is stored.
PostCreateOrder(c, form) ==
    LET parsed == \A i \in DOMAIN form : IsInt(form[i])
        qty == [i \in DOMAIN form |-> IF IsInt(form[i]) THEN int(form[i]) ELSE 0]
        items == OrderLines(get_menu_items(menu_items), qty, 1)
        stored == parsed /\ items # <<>> /\ c \in 1..customers
    IN  /\ Idle
        /\ Len(orders) < MaxPosts
        /\ IF stored
           THEN /\ orders' = Append(orders, [customer_id |-> c, order_date |-> now,
                                            items |-> items,
                                            total_amount |-> total_amount(items)])
                /\ update_customer_visit(c)
                /\ last' = NoCall
                /\ prev' = NoCall
           ELSE UNCHANGED <<orders, customer_rows, last, prev>>
        /\ control' = [route |-> "create_order", pc |-> "returned", customer_id |-> c,
                       form |-> form,
                       response |-> IF stored THEN "orders" ELSE "create_order"]
        /\ UNCHANGED <<customers, menu_items, now, hashseed, config, faces, camera,
                       video_active, recognition_active, latest_recognition_result,
                       captures, stream>>

CallCreateOrder ==
    \E c \in ScorerIds, form \in [DOMAIN menu_items -> FormValues] : PostCreateOrder(c, form)

AddSalad == add_menu_item("salad")

NextOrder ==
    AddFirstCustomer \/ AddEspresso \/ AddSalad \/ MigrateUnavailable \/ CallCreateOrder

SpecOrder == Init /\ [][NextOrder]_vars

\* ============================================================ properties
Items(recs) == {recs[i].item : i \in DOMAIN recs}

NonIncreasing(recs) == \A i \in 1..(Len(recs) - 1) : recs[i].score >= recs[i + 1].score

NoItemTwice(recs) == \A i, j \in DOMAIN recs : i # j => recs[i].item # recs[j].item

Requested == last.op = "get_customer_recommendations"

HistoryLen(c) == Len(get_customer_order_history(orders, c))

\* The quantity customer c bought of item id, over the orders made at a day
\* in days.
Bought(c, id, days) ==
    SumSeq([o \in DOMAIN orders |->
        IF orders[o].customer_id = c /\ orders[o].order_date \in days
        THEN SumSeq([l \in DOMAIN orders[o].items |->
                 IF orders[o].items[l].menu_item_id = id
                 THEN orders[o].items[l].quantity ELSE 0])
        ELSE 0])

\* C1: a request for a customer whose history has fewer than 3 orders (an
\* unknown id included) returns a Popularity Fallback list for its limit, and
\* every entry of it is a 'popular' one.
C1_BelowThresholdIsPopular ==
    (Requested /\ HistoryLen(last.customer_id) < 3)
    => /\ last.out \in _get_popular_recommendations(orders, menu_items, last.limit)
       /\ \A i \in DOMAIN last.out.value :
              last.out.value[i].recommendation_type = "popular"

\* C1's case: a customer with two orders got a non-empty popular list.
C1_Witness ==
    /\ Requested
    /\ last.customer_id \in 1..customers
    /\ HistoryLen(last.customer_id) = 2
    /\ last.out.kind = "return"
    /\ last.out.value # <<>>

\* C2: a request for a customer with at least 3 orders returns a list of at
\* most limit entries, in non-increasing order of combined score, with no
\* menu item twice.
C2_AtThresholdRankedList ==
    (Requested /\ HistoryLen(last.customer_id) >= 3)
    => /\ last.out.kind = "return"
       /\ Len(last.out.value) <= last.limit
       /\ NonIncreasing(last.out.value)
       /\ NoItemTwice(last.out.value)

\* C3: the same request made twice on unchanged tables gives the same output.
C3_SameRequestSameOutput ==
    (Requested /\ prev.op = "get_customer_recommendations") => last.out = prev.out

\* C4: a request never raises; for an unknown customer or one without orders
\* it returns a Popularity Fallback list.
C4_RequestNeverRaises ==
    Requested
    => /\ last.out.kind = "return"
       /\ HistoryLen(last.customer_id) = 0
          => last.out \in _get_popular_recommendations(orders, menu_items, last.limit)

\* The score a list gives an item (0 when the list does not contain it).
ListScore(recs, item) ==
    SumSeq([i \in DOMAIN recs |-> IF recs[i].item = item THEN recs[i].score ELSE 0])

Combined == last.op = "combine"

\* C5: the combined score of every item the combiner returns is 0.4 times its
\* frequency score plus 0.3 times its similarity score plus 0.3 times its
\* recency score, over the lists that contain it (in thousandths: 4, 3 and 3
\* times the scores in hundredths); so frequency 10 with similarity 0.8 gives
\* 4.24 and frequency 10 alone gives 4.0.
C5_CombinedScoreIsWeightedSum ==
    Combined
    => \A i \in DOMAIN last.out.value :
          LET rec == last.out.value[i]
              f == ListScore(last.args[1], rec.item)
              s == ListScore(last.args[2], rec.item)
              r == ListScore(last.args[3], rec.item)
          IN  /\ rec.score = 4 * f + 3 * s + 3 * r
              /\ (f = 1000 /\ s = 80 /\ r = 0) => rec.score = 4240
              /\ (f = 1000 /\ s = 0 /\ r = 0) => rec.score = 4000

\* C5's case: an item with frequency 10 and similarity 0.8 (4.24) is ranked
\* before an item with frequency 10 alone (4.0).
C5_Witness ==
    /\ Combined
    /\ Len(last.out.value) = 2
    /\ last.args[3] = <<>>
    /\ ListScore(last.args[1], last.out.value[1].item) = 1000
    /\ ListScore(last.args[2], last.out.value[1].item) = 80
    /\ ListScore(last.args[1], last.out.value[2].item) = 1000
    /\ ListScore(last.args[2], last.out.value[2].item) = 0
    /\ last.out.value[1].score = 4240
    /\ last.out.value[2].score = 4000

Days == 0..MaxNow

\* C6: the frequency scorer returns, without error, at most limit entries in
\* non-increasing score order, each with the sum of the item's quantities over
\* all of the customer's orders as its score, and the empty list for an empty
\* history.
C6_FrequencyScores ==
    last.op = "frequency"
    => /\ last.out.kind = "return"
       /\ Len(last.out.value) <= last.limit
       /\ NonIncreasing(last.out.value)
       /\ \A i \in DOMAIN last.out.value :
              last.out.value[i].score
                  = ScoreScale * Bought(last.customer_id, last.out.value[i].item, Days)
       /\ HistoryLen(last.customer_id) = 0 => last.out.value = <<>>

\* C6's case: on the history A x3, A x2, B x1 the scorer ranks A, with score
\* 5, above B, with score 1.
C6_Witness ==
    /\ last.op = "frequency"
    /\ last.customer_id = 1
    /\ Len(orders) = 3
    /\ Len(menu_items) >= 2
    /\ orders[1].items = <<Line(1, 3)>>
    /\ orders[2].items = <<Line(1, 2)>>
    /\ orders[3].items = <<Line(2, 1)>>
    /\ Len(last.out.value) = 2
    /\ last.out.value[1].item = 1 /\ last.out.value[1].score = 5 * ScoreScale
    /\ last.out.value[2].item = 2 /\ last.out.value[2].score = 1 * ScoreScale

\* C7: the recency scorer gives every item it returns the sum of the
\* quantities of the orders dated less than 30 days ago, plus at most those of
\* the orders dated exactly 30 days ago; older orders add nothing.
C7_RecencyWindow ==
    last.op = "recency"
    => /\ last.out.kind = "return"
       /\ \A i \in DOMAIN last.out.value :
              LET rec == last.out.value[i]
              IN  /\ rec.score >= ScoreScale * Bought(last.customer_id, rec.item,
                                                      {d \in Days : now - d < 30})
                  /\ rec.score <= ScoreScale * Bought(last.customer_id, rec.item,
                                                      {d \in Days : now - d <= 30})
       /\ \A l \in Range(Lines(get_customer_order_history(orders, last.customer_id))) :
              (/\ Bought(last.customer_id, l.menu_item_id, {d \in Days : now - d < 30}) > 0
               /\ Cardinality(OrderedItems(get_customer_order_history(orders, last.customer_id)))
                      <= last.limit)
              => l.menu_item_id \in Items(last.out.value)

\* The menu items on the customer's orders.
OwnedItems(c) ==
    {id \in DOMAIN menu_items : Bought(c, id, Days) > 0}

\* C8: the similarity scorer returns no item the customer has ordered.
C8_SimilarityNeverOwned ==
    (last.op = "similarity" /\ last.out.kind = "return")
    => Items(last.out.value) \cap OwnedItems(last.customer_id) = {}

\* C8's case: the customer owns an item and the scorer returned candidates.
C8_Witness ==
    /\ last.op = "similarity"
    /\ OwnedItems(last.customer_id) # {}
    /\ last.out.kind = "return"
    /\ last.out.value # <<>>

\* C9: with limit >= 1, an available item the customer has not ordered whose
\* feature text is that of an ordered item is returned (unless limit items as
\* similar are), and no less similar item is ranked before it.
C9_MostSimilarReturned ==
    (last.op = "similarity" /\ last.limit >= 1)
    => /\ last.out.kind = "return"
       /\ \A o \in OwnedItems(last.customer_id), j \in DOMAIN menu_items :
              (/\ j \notin OwnedItems(last.customer_id)
               /\ menu_items[o].is_available
               /\ menu_items[j].is_available
               /\ menu_items[j].kind = menu_items[o].kind)
              => /\ \/ j \in Items(last.out.value)
                    \/ /\ Len(last.out.value) = last.limit
                       /\ \A i \in DOMAIN last.out.value :
                              last.out.value[i].score >= ScoreScale
                 /\ \A i, k \in DOMAIN last.out.value :
                        (last.out.value[k].item = j /\ i < k)
                        => last.out.value[i].score >= last.out.value[k].score

\* The customer's history without the orders whose order_date does not parse
\* and without those outside the window.
ParsedRecent(c) ==
    SelectSeq(get_customer_order_history(orders, c),
              LAMBDA o : ParsesAsIsoString(o.order_date) /\ IsRecent(o.order_date, now))

\* C10: an order whose timestamp does not parse is left out and nothing else
\* changes: the recency scorer returns the ranking of the orders that are left.
C10_UnparsableOrderExcluded ==
    last.op = "recency"
    => last.out = Return(CountRecs(most_common(CountLines(Lines(ParsedRecent(last.customer_id)), <<>>),
                                               last.limit),
                                   get_menu_items(menu_items), "recency"))

\* The ids of the catalog, the available menu items.
CatalogIds == {i \in DOMAIN menu_items : menu_items[i].is_available}

\* C11: a request returns a list, the empty one or a Popularity Fallback one,
\* and raises nothing when the customer's history is empty, when no menu item
\* is available (the customer may have 3 or more orders of items that are no
\* longer available), and when no item the customer owns is in the catalog.
C11_EmptyResultNeverRaises ==
    (/\ Requested
     /\ \/ HistoryLen(last.customer_id) = 0
        \/ CatalogIds = {}
        \/ OwnedItems(last.customer_id) \cap CatalogIds = {})
    => /\ last.out.kind = "return"
       /\ \/ last.out.value = <<>>
          \/ last.out \in _get_popular_recommendations(orders, menu_items, last.limit)

\* C12: whenever the combiner has computed scores, the three weights it read
\* sum to 1.0 (10 tenths): a configuration whose weights do not is rejected or
\* normalised before.
C12_WeightsSumToOne ==
    (Combined /\ last.out.value # <<>>)
    => config.RECOMMENDATION_WEIGHT_FREQUENCY + config.RECOMMENDATION_WEIGHT_RECENCY
           + config.RECOMMENDATION_WEIGHT_SIMILARITY = 10

\* The number of orders, of any customer, that hold menu item id.
OrderCount(id) ==
    Cardinality({o \in DOMAIN orders :
                    \E l \in DOMAIN orders[o].items : orders[o].items[l].menu_item_id = id})

\* The quantity of menu item id sold, over all orders.
Sold(id) ==
    SumSeq([o \in DOMAIN orders |->
        SumSeq([l \in DOMAIN orders[o].items |->
            IF orders[o].items[l].menu_item_id = id
            THEN orders[o].items[l].quantity ELSE 0])])

\* Item a is ranked no later than item b: more orders, or as many and no
\* smaller a quantity.
RanksBefore(a, b) ==
    \/ OrderCount(a) > OrderCount(b)
    \/ OrderCount(a) = OrderCount(b) /\ Sold(a) >= Sold(b)

\* C13: the Popularity Fallback list for limit N has at most N entries, all of
\* available items, each tagged 'popular' with the item's number of orders as
\* its score, in the order of number of orders descending, then quantity sold
\* descending; an ordered available item is left out only by the limit, behind
\* the listed ones.
C13_PopularRanking ==
    last.op = "popular"
    => LET recs == last.out.value
       IN  /\ last.out.kind = "return"
           /\ Len(recs) <= last.limit
           /\ \A i \in DOMAIN recs :
                  /\ recs[i].item \in CatalogIds
                  /\ recs[i].score = ScoreScale * OrderCount(recs[i].item)
                  /\ recs[i].recommendation_type = "popular"
           /\ \A i \in 1..(Len(recs) - 1) : RanksBefore(recs[i].item, recs[i + 1].item)
           /\ \A j \in CatalogIds \ Items(recs) :
                  OrderCount(j) > 0
                  => /\ Len(recs) = last.limit
                     /\ \A i \in DOMAIN recs : RanksBefore(recs[i].item, j)

\* C13's case: two available items with as many orders and different
\* quantities are listed, the one that sold more first, while an unavailable
\* item has orders too.
C13_Witness ==
    /\ last.op = "popular"
    /\ Len(last.out.value) = 2
    /\ OrderCount(last.out.value[1].item) = OrderCount(last.out.value[2].item)
    /\ Sold(last.out.value[1].item) > Sold(last.out.value[2].item)
    /\ \E j \in DOMAIN menu_items : ~menu_items[j].is_available /\ OrderCount(j) > 0

\* C14: a request with limit >= 1 for a customer below the threshold returns
\* a list that is not empty whenever a menu item is available, ordered by
\* anyone or not.
C14_FallbackNotEmpty ==
    (/\ Requested
     /\ HistoryLen(last.customer_id) < 3
     /\ last.limit >= 1
     /\ CatalogIds # {})
    => /\ last.out.kind = "return"
       /\ last.out.value # <<>>

\* C15: a step that is a get_customer_recommendations request leaves the
\* customers, the menu items and the orders (with their items) as they were,
\* and its outcome is one the request has on these tables, whichever requests
\* were made before it.
C15_RequestChangesNothing ==
    [][last'.op = "get_customer_recommendations"
       => /\ customers' = customers
          /\ menu_items' = menu_items
          /\ orders' = orders
          /\ last'.out \in get_customer_recommendations(orders, menu_items, last'.customer_id,
                                                         last'.limit, now, hashseed)]_vars

\* C15's case: a request made right after the same request, on tables that
\* hold customers, menu items and orders.
C15_Witness ==
    /\ Requested
    /\ prev.op = "get_customer_recommendations"
    /\ customers > 0 /\ menu_items # <<>> /\ orders # <<>>

\* C16: the outcome of a request that ran while orders and menu items were
\* written is an outcome the request has on the tables as they were at one
\* moment of its run, and all of its reads saw the same history and the same
\* catalog.
C16_SingleSnapshot ==
    last.op = "request:done"
    => /\ \E i \in DOMAIN last.args.tables :
              last.out \in get_customer_recommendations(last.args.tables[i].orders,
                                                        last.args.tables[i].menu_items,
                                                        last.customer_id, last.limit,
                                                        now, hashseed)
       /\ \A i, j \in DOMAIN last.args.histories :
              last.args.histories[i] = last.args.histories[j]
       /\ \A i, j \in DOMAIN last.args.catalogs :
              last.args.catalogs[i] = last.args.catalogs[j]

\* The strategies whose list, among the combiner's three inputs, holds item.
StrategiesOf(item) ==
    {t \in {"frequency", "similarity", "recency"} :
        \E k \in 1..3 : \E i \in DOMAIN last.args[k] :
            /\ last.args[k][i].item = item
            /\ last.args[k][i].recommendation_type = t}

InputItems == Items(last.args[1]) \cup Items(last.args[2]) \cup Items(last.args[3])

\* C17: every item of the combiner's output carries exactly the tags of the
\* strategies whose list held it, at least one and none twice; an item of
\* several lists is one entry whose score exceeds what any single list gives
\* it, and the limit alone drops items.
C17_TagsAndAccumulation ==
    Combined
    => /\ NoItemTwice(last.out.value)
       /\ Items(last.out.value) \subseteq InputItems
       /\ Len(last.out.value) = IF Cardinality(InputItems) < last.limit
                                THEN Cardinality(InputItems) ELSE last.limit
       /\ \A i \in DOMAIN last.out.value :
              LET rec == last.out.value[i]
                  tags == rec.recommendation_types
              IN  /\ Range(tags) = StrategiesOf(rec.item)
                  /\ tags # <<>>
                  /\ \A a, b \in DOMAIN tags : a # b => tags[a] # tags[b]
                  /\ Cardinality(StrategiesOf(rec.item)) > 1
                     => /\ rec.score > 4 * ListScore(last.args[1], rec.item)
                        /\ rec.score > 3 * ListScore(last.args[2], rec.item)
                        /\ rec.score > 3 * ListScore(last.args[3], rec.item)

\* C17's case: an item that all three lists hold is returned with the three
\* tags.
C17_Witness ==
    /\ Combined
    /\ \E i \in DOMAIN last.out.value :
           /\ Len(last.out.value[i].recommendation_types) = 3
           /\ StrategiesOf(last.out.value[i].item) = {"frequency", "similarity", "recency"}

\* The reasons the combiner's three input lists give for item.
ReasonsOf(item) ==
    UNION {{last.args[k][i].reason : i \in {x \in DOMAIN last.args[k] :
                                              last.args[k][x].item = item}} : k \in 1..3}

\* C18: the reason of every item of the combiner's output joins at most 2
\* reasons, no two of them equal, each given for the item by an input list:
\* two of them when the lists give two or more distinct ones, and the one
\* reason alone when they give one.
C18_ReasonJoinsAtMostTwo ==
    Combined
    => \A i \in DOMAIN last.out.value :
          LET rec == last.out.value[i]
              given == ReasonsOf(rec.item)
          IN  /\ Len(rec.reason) <= 2
              /\ Range(rec.reason) \subseteq given
              /\ \A a, b \in DOMAIN rec.reason : a # b => rec.reason[a] # rec.reason[b]
              /\ Len(rec.reason) = IF Cardinality(given) < 2 THEN Cardinality(given) ELSE 2
              /\ Cardinality(given) = 1 => rec.reason = <<CHOOSE r \in given : TRUE>>

\* C18's case: an item with three distinct reasons is returned with two.
C18_Witness ==
    /\ Combined
    /\ \E i \in DOMAIN last.out.value :
           /\ Cardinality(ReasonsOf(last.out.value[i].item)) = 3
           /\ Len(last.out.value[i].reason) = 2

\* The highest similarity an owned catalog item has to catalog item id.
BestSimilarity(c, id) ==
    LET catalog == get_menu_items(menu_items)
        sims == {cosine_similarity(catalog, CatalogIndex(catalog, o), CatalogIndex(catalog, id)) :
                    o \in OwnedItems(c) \cap CatalogIds}
    IN  CHOOSE m \in sims : \A x \in sims : x <= m

\* C19: the similarity scorer's list has at most limit entries, in
\* non-increasing score order, no item twice, each with the highest
\* similarity any owned item has to it as its score.
C19_BestScorePerItem ==
    (last.op = "similarity" /\ last.out.kind = "return")
    => /\ Len(last.out.value) <= last.limit
       /\ NonIncreasing(last.out.value)
       /\ NoItemTwice(last.out.value)
       /\ \A i \in DOMAIN last.out.value :
              last.out.value[i].score = BestSimilarity(last.customer_id, last.out.value[i].item)

\* C20: two items of the similarity scorer's list with equal scores come in
\* catalog order, the one earlier in the catalog first.
C20_TiesInCatalogOrder ==
    (last.op = "similarity" /\ last.out.kind = "return")
    => LET catalog == get_menu_items(menu_items)
       IN  \A i, k \in DOMAIN last.out.value :
               (i < k /\ last.out.value[i].score = last.out.value[k].score)
               => CatalogIndex(catalog, last.out.value[i].item)
                      < CatalogIndex(catalog, last.out.value[k].item)

\* C21: on a history with items that are not in the catalog, each scorer
\* returns a list without error; the list holds catalog items only, and the
\* frequency and recency lists hold every owned catalog item when the limit
\* leaves room for all owned items.
C21_RemovedItemsSkipped ==
    (/\ last.op \in {"frequency", "similarity", "recency"}
     /\ OwnedItems(last.customer_id) \ CatalogIds # {})
    => /\ last.out.kind = "return"
       /\ Items(last.out.value) \subseteq CatalogIds
       /\ (/\ last.op \in {"frequency", "recency"}
           /\ Cardinality(OwnedItems(last.customer_id)) <= last.limit)
          => Items(last.out.value) = OwnedItems(last.customer_id) \cap CatalogIds

\* The days of the closed interval [now - 30 days, now].
ClosedWindow == {d \in Days : now - 30 <= d /\ d <= now}

\* C22: the recency scorer counts exactly the orders dated in the closed
\* interval [now - 30 days, now]: every item it returns has the quantity of
\* these orders as its score, an order made exactly 30 days ago included, and
\* an item bought in the interval is returned when the limit leaves room.
C22_ClosedRecencyWindow ==
    last.op = "recency"
    => /\ last.out.kind = "return"
       /\ \A i \in DOMAIN last.out.value :
              last.out.value[i].score
                  = ScoreScale * Bought(last.customer_id, last.out.value[i].item, ClosedWindow)
       /\ \A id \in CatalogIds :
              (/\ Bought(last.customer_id, id, ClosedWindow) > 0
               /\ Cardinality(OwnedItems(last.customer_id)) <= last.limit)
              => id \in Items(last.out.value)

\* The request took the personalised path and has run its frequency and
\* similarity scorers.
ScorersRan ==
    /\ last.op \in {"request:recency", "request:done"}
    /\ Len(last.args.histories) >= 3

Ranking(recs) == [i \in DOMAIN recs |-> [item |-> recs[i].item, score |-> recs[i].score]]

\* The lists the combiner returns for limit n from the rankings the scorers
\* give when nothing is cut off: a limit of MaxMenu holds every menu item.
FromUntruncated(c, n) ==
    LET f == _get_frequency_based_recommendations(orders, menu_items, c, MaxMenu)
        r == _get_recency_based_recommendations(orders, menu_items, c, MaxMenu, now)
    IN  {Ranking(_combine_recommendations(f.value, s.value, r.value, n, hashseed)) :
            s \in _get_similarity_based_recommendations(orders, menu_items, c, MaxMenu)}

\* C24: for a customer with at least 3 orders the request returns, for limit
\* N, the items and scores of the top N of the weighted sum over the scorers'
\* untruncated rankings.
C24_TwiceTheLimitIsEnough ==
    (Requested /\ HistoryLen(last.customer_id) >= 3)
    => /\ last.out.kind = "return"
       /\ Ranking(last.out.value) \in FromUntruncated(last.customer_id, last.limit)

\* C25: get_complementary_items returns at most limit entries, no given item,
\* no item twice, only pastries (a coffee was given) or drinks (a sandwich or a
\* salad was given), and nothing when no given item is a coffee, a sandwich or
\* a salad.
C25_ComplementaryItems ==
    last.op = "complementary"
    => LET out == last.out.value
           catalog == get_menu_items(menu_items)
           given == {catalog[i].kind : i \in {j \in DOMAIN catalog : catalog[j].id \in last.args}}
           coffee == \E k \in given : Category(k) = "drink" /\ Subcategory(k) = "coffee"
           meal == \E k \in given : Category(k) = "food" /\ Subcategory(k) \in {"sandwich", "salad"}
       IN  /\ Len(out) <= last.limit
           /\ \A i \in DOMAIN out : out[i].item.id \notin last.args
           /\ \A i, j \in DOMAIN out : out[i].item.id = out[j].item.id => i = j
           /\ \A i \in DOMAIN out :
                  LET k == out[i].item.kind
                  IN  \/ coffee /\ Category(k) = "food" /\ Subcategory(k) = "pastry"
                      \/ meal /\ Category(k) = "drink"
           /\ (~coffee /\ ~meal) => out = <<>>

\* C26: once stop_recognition has returned and the stream's loop has exited,
\* with no start_recognition or video_feed request since, camera is None and
\* no capture object is left open; and the stream never reads from a camera
\* that was released or set to None.
C26_StopReleasesCamera ==
    /\ (control = [route |-> "stop_recognition", pc |-> "returned"] /\ stream.pc = "exited")
       => /\ camera = 0
          /\ \A d \in DOMAIN captures : captures[d] # "opened"
    /\ stream.read_on \notin {"released", "None"}

\* C28: when capture_and_save_face returned False the customer row of the
\* request is in the database and no encodings are stored for it; and the same
\* form sent again adds a further customer row.
C28_FailedCaptureKeepsCustomer ==
    (control.route = "add_customer" /\ control.pc = "returned")
    => /\ control.response = "add_customer"
          => /\ control.customer_id \in DOMAIN customer_rows
             /\ \A f \in customer_dir :
                    f.customer_id = control.customer_id => f.encodings = <<>>
             /\ \A i \in DOMAIN known_customer_ids :
                    known_customer_ids[i] # control.customer_id
       /\ control.retry
          => /\ control.response # "500"
             /\ control.customer_id = customers
             /\ customers >= 2

\* C27: latest_recognition_result changes only in a frame step of the stream
\* with recognition active; after a frame with faces it is the result of the
\* frame's last face; and /api/get_latest_recognition answers recognized=true
\* with recommendations exactly when it is not None.
C27_LatestRecognitionResult ==
    [][/\ latest_recognition_result' # latest_recognition_result
          => (stream.pc = "frame" /\ recognition_active)
       /\ (stream' # stream /\ stream'.recognized # <<>>)
          => latest_recognition_result' = stream'.recognized[Len(stream'.recognized)]
       /\ (control' # control /\ control'.route = "get_latest_recognition")
          => /\ control'.response.status = 200
             /\ control'.response.recognized = (control'.result # None)]_vars

\* The items of the available menu for which the form holds a quantity
\* greater than 0.
Wanted(form) ==
    {i \in DOMAIN form : IsInt(form[i]) /\ int(form[i]) > 0 /\ menu_items[i].is_available}

\* A step of POST /create_order.
OrderPosted ==
    /\ control'.route = "create_order"
    /\ customers' = customers
    /\ menu_items' = menu_items

\* One order was added for the customer, with exactly the wanted items, their
\* quantities and menu prices, and the customer's visit_count went up by 1.
OneOrderAdded(c, form) ==
    /\ Len(orders') = Len(orders) + 1
    /\ SubSeq(orders', 1, Len(orders)) = orders
    /\ LET order == orders'[Len(orders')]
       IN  /\ order.customer_id = c
           /\ Range(order.items) =
                  {[menu_item_id |-> i, quantity |-> int(form[i]),
                    unit_price |-> Price(menu_items[i].kind)] : i \in Wanted(form)}
           /\ Len(order.items) = Cardinality(Wanted(form))
           /\ order.total_amount =
                  SumSeq([k \in DOMAIN order.items |->
                             order.items[k].unit_price * order.items[k].quantity])
    /\ c \in DOMAIN customer_rows
    /\ customer_rows' = [customer_rows EXCEPT ![c].visit_count = @ + 1]

NothingStored == orders' = orders /\ customer_rows' = customer_rows

\* C29 as the specification states it: an order is stored when, and only
\* when, a submitted quantity is greater than 0 for an available item.
C29_OrderStoredForPositiveQuantity ==
    [][OrderPosted
       => IF Wanted(control'.form) # {}
          THEN OneOrderAdded(control'.customer_id, control'.form)
          ELSE NothingStored]_vars

\* C29, amended: the order is stored when, besides, the customer exists and
\* every quantity field holds an integer; in every other case nothing is
\* stored and no visit is counted.
C29_OrderStoredForValidForm ==
    [][OrderPosted
       => IF /\ Wanted(control'.form) # {}
             /\ control'.customer_id \in 1..customers
             /\ \A i \in DOMAIN control'.form : IsInt(control'.form[i])
          THEN OneOrderAdded(control'.customer_id, control'.form)
          ELSE NothingStored]_vars

\* C29's case: an order of two lines was stored and counted as a visit.
C29_Witness ==
    /\ control.route = "create_order"
    /\ control.response = "orders"
    /\ Cardinality(Wanted(control.form)) = 2
    /\ Len(orders[Len(orders)].items) = 2
    /\ customer_rows[control.customer_id].visit_count = 2

\* The folder a list entry comes from: index i of the three lists names one
\* customer, with one of the encodings stored for that customer.
SameCustomer(i) ==
    \E f \in customer_dir :
        /\ f.customer_id = known_customer_ids[i]
        /\ f.name = known_face_names[i]
        /\ f.encodings # <<>>
        /\ known_face_encodings[i] \in Range(f.encodings[1])

\* C30: capture_and_save_face returns True only with num_photos captured
\* encodings, written with the metadata and loaded; when it returns False no
\* file of the customer is written and the customer is not among the known
\* faces; and in every state the three lists of known faces have one length
\* and name the same customer at the same index.
C30_CaptureAndKnownFaces ==
    /\ (capture.pc = "returned" /\ capture.result = "True")
       => /\ Len(capture.captured_encodings) = num_photos
          /\ Folder(capture.customer_id, capture.name).encodings = <<capture.captured_encodings>>
          /\ Folder(capture.customer_id, capture.name).metadata
          /\ \E i \in DOMAIN known_customer_ids : known_customer_ids[i] = capture.customer_id
    /\ (capture.pc = "returned" /\ capture.result = "False")
       => /\ \A f \in customer_dir :
                 f.customer_id = capture.customer_id => (f.encodings = <<>> /\ ~f.metadata)
          /\ \A i \in DOMAIN known_customer_ids : known_customer_ids[i] # capture.customer_id
    /\ Len(known_face_encodings) = Len(known_face_names)
    /\ Len(known_face_names) = Len(known_customer_ids)
    /\ \A i \in DOMAIN known_customer_ids : SameCustomer(i)

====
